---- MODULE Spec2Model ----
(***************************************************************************)
(* money-money-money: the Money value type of src/unnamed/part_000 (the    *)
(* revision src/test.js exercises), over the big.js decimal engine and the *)
(* Intl.NumberFormat currency metadata it calls.                           *)
(*                                                                         *)
(* A decimal is kept as big.js keeps it: a sign s, a coefficient c (a      *)
(* sequence of decimal digits without leading or trailing zeros) and an    *)
(* exponent e, the value being s * c[1].c[2]c[3]... * 10^e.  Arithmetic is  *)
(* done digit by digit, so amounts and scalars are of unbounded size.      *)
(***************************************************************************)
EXTENDS Integers, Sequences, FiniteSets, TLC

(***************************************************************************)
(* Natural numbers as digit sequences, most significant digit first,       *)
(* without leading zeros; zero is <<0>>.                                   *)
(***************************************************************************)
\* The element of a one-element set.  The({F(x) : x \in {e}}) is F(e) with
\* e computed once.
The(S) == CHOOSE x \in S : TRUE

Max(i, j) == IF i >= j THEN i ELSE j

Min(i, j) == IF i <= j THEN i ELSE j

Zeros(k) == [i \in 1..k |-> 0]

\* n without its leading zeros.
NatNorm(n) ==
    IF \A i \in 1..Len(n) : n[i] = 0 THEN <<0>>
    ELSE SubSeq(n,
                CHOOSE i \in 1..Len(n) :
                    n[i] # 0 /\ \A j \in 1..(i - 1) : n[j] = 0,
                Len(n))

NatIsZero(n) == n = <<0>>

\* Digit i of n written with L digits (leading zeros added).
PadL(n, L, i) == IF i > L - Len(n) THEN n[i - (L - Len(n))] ELSE 0

\* -1, 0 or 1 as a < b, a = b, a > b.
NatCmp(a, b) ==
    IF Len(a) # Len(b) THEN (IF Len(a) < Len(b) THEN -1 ELSE 1)
    ELSE IF a = b THEN 0
    ELSE The({ IF a[i] < b[i] THEN -1 ELSE 1
               : i \in { CHOOSE j \in 1..Len(a) :
                             a[j] # b[j] /\ \A k \in 1..(j - 1) : a[k] = b[k] } })

\* The digits of the number whose columns, each 0..18, are t: a carry comes
\* into column i - 1 when a column j >= i overflows and the columns between
\* are all 9.  The first column is to be 0 or 1 less than overflowing.
Carried(t) ==
    [i \in 1..Len(t) |->
        (t[i] + (IF \E j \in (i + 1)..Len(t) :
                       t[j] >= 10 /\ \A k \in (i + 1)..(j - 1) : t[k] = 9
                 THEN 1 ELSE 0)) % 10]

\* The digits of the number whose columns, each -9..9, are t (the number
\* is not negative): a borrow is taken from column i - 1 when a column
\* j >= i is negative and the columns between are all 0.
Borrowed(t) ==
    [i \in 1..Len(t) |->
        (t[i] + 10 - (IF \E j \in (i + 1)..Len(t) :
                            t[j] < 0 /\ \A k \in (i + 1)..(j - 1) : t[k] = 0
                      THEN 1 ELSE 0)) % 10]

\* The columns x[i] + sgn * y[i] of two numbers written with L digits.
Columns(a, b, L, sgn) ==
    <<>> \o [i \in 1..L |-> PadL(a, L, i) + sgn * PadL(b, L, i)]

NatAdd(a, b) ==
    NatNorm(<<>> \o Carried(Columns(a, b, Max(Len(a), Len(b)) + 1, 1)))

\* a - b for a >= b.
NatSub(a, b) == NatNorm(<<>> \o Borrowed(Columns(a, b, Len(a), -1)))

\* a * 10^k.
NatShift(a, k) == NatNorm(a \o Zeros(k))

\* Sum of a[i] * b[k - i] over i in lo..hi.
RECURSIVE ColumnSum(_, _, _, _, _)
ColumnSum(a, b, k, lo, hi) ==
    IF lo > hi THEN 0
    ELSE IF lo = hi
    THEN (IF k - lo >= 1 /\ k - lo <= Len(b) THEN a[lo] * b[k - lo] ELSE 0)
    ELSE ColumnSum(a, b, k, lo, (lo + hi) \div 2)
         + ColumnSum(a, b, k, (lo + hi) \div 2 + 1, hi)

\* The number whose digit in column i is digit number j (from the right,
\* from 0) of the column sum t[i].
Plane(t, j) ==
    NatNorm(<<>> \o [i \in 1..Len(t) |-> (t[i] \div (10 ^ j)) % 10])

\* The number whose columns are the sums t, each below 10000.
ColumnsValue(t) ==
    NatAdd(NatAdd(Plane(t, 0), NatShift(Plane(t, 1), 1)),
           NatAdd(NatShift(Plane(t, 2), 2), NatShift(Plane(t, 3), 3)))

\* Schoolbook product: the column sums of the digit products, then the
\* carries.  The sums run over the digits of the shorter factor.
NatMulOrdered(lo, hi) ==
    ColumnsValue(<<>> \o [k \in 1..(Len(lo) + Len(hi)) |->
                             ColumnSum(lo, hi, k, 1, Len(lo))])

NatMul(a, b) ==
    IF Len(a) <= Len(b) THEN NatMulOrdered(a, b) ELSE NatMulOrdered(b, a)

\* How often b (non-zero) can be taken from r, and what is left.
RECURSIVE NatTakeAway(_, _)
NatTakeAway(r, b) ==
    IF NatCmp(r, b) < 0 THEN <<0, r>>
    ELSE The({ <<t[1] + 1, t[2]>> : t \in {NatTakeAway(NatSub(r, b), b)} })

\* Long division by b (non-zero) of the digits lo..hi of a, r being what
\* the digits before them left: <<quotient digits, remainder>>.
RECURSIVE NatDivStep(_, _, _, _, _)
NatDivStep(a, b, lo, hi, r) ==
    IF lo = hi
    THEN The({ <<<<t[1]>>, t[2]>>
               : t \in {NatTakeAway(NatNorm(r \o <<a[lo]>>), b)} })
    ELSE The({ The({ <<left[1] \o right[1], right[2]>>
                     : right \in {NatDivStep(a, b, (lo + hi) \div 2 + 1, hi,
                                             left[2])} })
               : left \in {NatDivStep(a, b, lo, (lo + hi) \div 2, r)} })

\* <<quotient, remainder>> of a by b, b non-zero.
NatDivMod(a, b) ==
    The({ <<NatNorm(qr[1]), qr[2]>>
          : qr \in {NatDivStep(a, b, 1, Len(a), <<0>>)} })

\* n without its trailing zeros (one digit is kept).
StripTrailingZeros(n) ==
    IF \A i \in 1..Len(n) : n[i] = 0 THEN <<0>>
    ELSE SubSeq(n, 1,
                CHOOSE i \in 1..Len(n) :
                    n[i] # 0 /\ \A j \in (i + 1)..Len(n) : n[j] = 0)

\* The digits of the integer k >= 0.
RECURSIVE IntToNat(_)
IntToNat(k) == IF k < 10 THEN <<k>> ELSE IntToNat(k \div 10) \o <<k % 10>>

\* b^j.
RECURSIVE PowNat(_, _)
PowNat(b, j) ==
    IF j = 0 THEN <<1>>
    ELSE The({ IF j % 2 = 0 THEN NatMul(h, h) ELSE NatMul(NatMul(h, h), b)
               : h \in {PowNat(b, j \div 2)} })

(***************************************************************************)
(* The decimal engine (big.js 5.x, required at line 1).  A decimal is the  *)
(* record [s, c, e] of a Big instance.  Each family of Money values has    *)
(* its own Big constructor with its own DP (decimal places kept by div)    *)
(* and RM (default rounding mode).                                         *)
(***************************************************************************)
\* RoundingMode, lines 9-14.
RoundDown == 0

RoundHalfUp == 1

RoundHalfEven == 2

RoundUp == 3

RoundingModes == {RoundDown, RoundHalfUp, RoundHalfEven, RoundUp}

\* An omitted roundingMode argument (undefined).
UNDEFINED == -1

\* The families of Money values: Money itself (static get Big returns the
\* required big.js constructor, DP 20 and RM half-up) and the subclass
\* MoneyUp of the tests, whose Big has RM = RoundingMode.up.
Families == {"Money", "MoneyUp"}

BigDP(family) == 20

BigRM(family) == IF family = "MoneyUp" THEN RoundUp ELSE RoundHalfUp

MkZero(s) == [s |-> s, c |-> <<0>>, e |-> 0]

BigIsZero(x) == x.c[1] = 0

\* Number of digits after the decimal point.
FracDigits(x) == Max(0, Len(x.c) - 1 - x.e)

\* The integer Coef(x) with |x| = Coef(x) / 10^FracDigits(x).
Coef(x) ==
    IF BigIsZero(x) THEN <<0>>
    ELSE IF x.e >= Len(x.c) THEN x.c \o Zeros(x.e + 1 - Len(x.c))
    ELSE x.c

\* |x| * 10^d as a natural number, for d >= FracDigits(x).
Scaled(x, d) == NatShift(Coef(x), d - FracDigits(x))

\* The Big of sign s and magnitude n / 10^d, normalised as big.js does
\* (no trailing zeros in c; zero is c = <<0>>, e = 0).
MkBig(s, n, d) ==
    IF NatIsZero(n) THEN MkZero(s)
    ELSE [s |-> s, c |-> StripTrailingZeros(n), e |-> Len(n) - 1 - d]

\* big.js round(x, dp, rm, more): x to dp decimal places.  i is the index
\* (from 0) in x.c of the first digit dropped; digits outside x.c read as
\* undefined, which compares false.
BigRoundMore(x, dp, rm, more) ==
    LET i   == x.e + dp + 1
        has(j) == j >= 0 /\ j < Len(x.c)
        dig(j) == IF has(j) THEN x.c[j + 1] ELSE -1
        up  == CASE rm = RoundHalfUp   -> dig(i) >= 5
                 [] rm = RoundHalfEven ->
                        \/ dig(i) > 5
                        \/ /\ dig(i) = 5
                           /\ \/ more
                              \/ i < 0
                              \/ has(i + 1)
                              \/ (has(i - 1) /\ dig(i - 1) % 2 = 1)
                 [] rm = RoundUp       -> more \/ x.c[1] # 0
                 [] OTHER              -> FALSE
    IN  IF i < Len(x.c)
        THEN IF i < 1
             THEN IF up THEN [s |-> x.s, c |-> <<1>>, e |-> -dp]
                  ELSE MkZero(x.s)
             ELSE LET kept == SubSeq(x.c, 1, i)
                      inc  == IF up THEN NatAdd(kept, <<1>>) ELSE kept
                  IN  [s |-> x.s,
                       c |-> StripTrailingZeros(inc),
                       e |-> x.e + (Len(inc) - Len(kept))]
        ELSE x

\* Big.prototype.round(dp, rm).
BigRound(x, dp, rm) == BigRoundMore(x, dp, rm, FALSE)

\* Comparison of magnitudes.
MagCmp(x, y) ==
    LET d == Max(FracDigits(x), FracDigits(y))
    IN  NatCmp(Scaled(x, d), Scaled(y, d))

\* Big.prototype.cmp: zeros of either sign are equal.
BigCmp(x, y) ==
    IF BigIsZero(x) \/ BigIsZero(y)
    THEN IF BigIsZero(x)
         THEN (IF BigIsZero(y) THEN 0 ELSE -y.s)
         ELSE x.s
    ELSE IF x.s # y.s THEN x.s
    ELSE x.s * MagCmp(x, y)

BigEq(x, y) == BigCmp(x, y) = 0

BigLt(x, y) == BigCmp(x, y) < 0

BigLte(x, y) == BigCmp(x, y) < 1

BigGt(x, y) == BigCmp(x, y) > 0

BigGte(x, y) == BigCmp(x, y) > -1

BigAbs(x) == [x EXCEPT !.s = 1]

BigNeg(x) == [x EXCEPT !.s = -x.s]

\* plus for operands of one sign.
PlusSameSign(x, y) ==
    IF BigIsZero(x) \/ BigIsZero(y)
    THEN IF ~BigIsZero(y) THEN y
         ELSE IF ~BigIsZero(x) THEN x
         ELSE MkZero(x.s)
    ELSE LET d == Max(FracDigits(x), FracDigits(y))
         IN  MkBig(y.s, NatAdd(Scaled(x, d), Scaled(y, d)), d)

\* minus for operands of one sign; n - n is +0.
MinusSameSign(x, y) ==
    IF BigIsZero(x) \/ BigIsZero(y)
    THEN IF ~BigIsZero(y) THEN BigNeg(y)
         ELSE IF ~BigIsZero(x) THEN x
         ELSE MkZero(1)
    ELSE LET d    == Max(FracDigits(x), FracDigits(y))
             xn   == Scaled(x, d)
             yn   == Scaled(y, d)
             xlty == NatCmp(xn, yn) < 0
             diff == IF xlty THEN NatSub(yn, xn) ELSE NatSub(xn, yn)
         IN  IF NatIsZero(diff) THEN MkZero(1)
             ELSE MkBig(IF xlty THEN -y.s ELSE y.s, diff, d)

\* Big.prototype.plus: exact.
BigPlus(x, y) ==
    IF x.s # y.s THEN MinusSameSign(x, BigNeg(y)) ELSE PlusSameSign(x, y)

\* Big.prototype.minus: exact.
BigMinus(x, y) ==
    IF x.s # y.s THEN PlusSameSign(x, BigNeg(y)) ELSE MinusSameSign(x, y)

\* Big.prototype.times: exact.
BigTimes(x, y) ==
    LET s == IF x.s = y.s THEN 1 ELSE -1
    IN  IF BigIsZero(x) \/ BigIsZero(y) THEN MkZero(s)
        ELSE MkBig(s, NatMul(Coef(x), Coef(y)), FracDigits(x) + FracDigits(y))

\* Big.prototype.div for a non-zero divisor: the quotient is computed to
\* dp + 1 decimal places and then rounded to dp places under rm, the
\* remainder telling round whether more digits follow.  A quotient whose
\* computed digits are all zero is the single digit 0 at an exponent below
\* -dp, as in big.js.  While a remainder is left the digit loop runs to
\* the last place, so the digits handed to round keep their trailing
\* zeros; round strips them afterwards.
BigDivRounded(x, y, dp, rm) ==
    LET s  == IF x.s = y.s THEN 1 ELSE -1
        \* |x| / |y| * 10^(dp + 1) = x.c * 10^k / y.c
        k  == (dp + 1) + (x.e - Len(x.c)) - (y.e - Len(y.c))
        qr == IF k >= 0 THEN NatDivMod(NatShift(x.c, k), y.c)
              ELSE NatDivMod(x.c, NatShift(y.c, -k))
        q  == IF NatIsZero(qr[1])
              THEN [s |-> s, c |-> <<0>>, e |-> -(dp + 2)]
              ELSE IF ~NatIsZero(qr[2])
              THEN [s |-> s, c |-> qr[1], e |-> Len(qr[1]) - 1 - (dp + 1)]
              ELSE MkBig(s, qr[1], dp + 1)
    IN  IF BigIsZero(x) THEN MkZero(s)
        ELSE BigRoundMore(q, dp, rm, ~NatIsZero(qr[2]))

\* Big.prototype.mod for a non-zero divisor: x - trunc(x / y) * y, the
\* sign that of x.
BigModNonZero(x, y) ==
    IF MagCmp(y, x) = 1 THEN x
    ELSE BigMinus(x, BigTimes(BigDivRounded(x, y, 0, RoundDown), y))

(***************************************************************************)
(* JavaScript values handed to the library.  A string is the sequence of   *)
(* its characters; a number is given by the characters of String(n), which *)
(* is what big.js parses; a Big instance is copied.                        *)
(***************************************************************************)
Str(chars) == [t |-> "string", v |-> chars, big |-> MkZero(1)]

Num(chars) == [t |-> "number", v |-> chars, big |-> MkZero(1)]

BigVal(x) == [t |-> "big", v |-> <<>>, big |-> x]

\* Any other value (undefined, null, a boolean, an array, an object, a Date):
\* its type and the characters of its conversion to a string.
Obj(t, chars) == [t |-> t, v |-> chars, big |-> MkZero(1)]

DigitChars == <<"0", "1", "2", "3", "4", "5", "6", "7", "8", "9">>

IsDigit(ch) == \E i \in 1..10 : DigitChars[i] = ch

DigitVal(ch) == (CHOOSE i \in 1..10 : DigitChars[i] = ch) - 1

AllDigits(w) == \A i \in 1..Len(w) : IsDigit(w[i])

\* Index of the first character of w that is in set, 0 when there is none.
IndexOf(w, set) ==
    LET hits == {i \in 1..Len(w) : w[i] \in set}
    IN  IF hits = {} THEN 0 ELSE CHOOSE i \in hits : \A j \in hits : i <= j

RECURSIVE DigitsToInt(_, _)
DigitsToInt(w, acc) ==
    IF w = <<>> THEN acc ELSE DigitsToInt(Tail(w), acc * 10 + DigitVal(Head(w)))

\* The parts of a numeric literal: sign, integer digits, fraction digits,
\* whether an exponent is present, its sign and its digits.
Literal(w) ==
    The({ The({ The({ [neg  |-> Len(w) > 0 /\ w[1] = "-",
                       ip   |-> IF p = 0 THEN m[1] ELSE SubSeq(m[1], 1, p - 1),
                       fp   |-> IF p = 0 THEN <<>>
                                ELSE SubSeq(m[1], p + 1, Len(m[1])),
                       hasE |-> m[3],
                       xneg |-> Len(m[2]) > 0 /\ m[2][1] = "-",
                       xd   |-> IF Len(m[2]) > 0 /\ m[2][1] \in {"+", "-"}
                                THEN Tail(m[2]) ELSE m[2]]
                      : p \in {IndexOf(m[1], {"."})} })
                : m \in { IF IndexOf(u, {"e", "E"}) = 0 THEN <<u, <<>>, FALSE>>
                          ELSE <<SubSeq(u, 1, IndexOf(u, {"e", "E"}) - 1),
                                 SubSeq(u, IndexOf(u, {"e", "E"}) + 1, Len(u)),
                                 TRUE>> } })
          : u \in {IF Len(w) > 0 /\ w[1] = "-" THEN Tail(w) ELSE w} })

\* big.js NUMERIC: /^-?(\d+(\.\d*)?|\.\d+)(e[+-]?\d+)?$/i
IsNumericLiteral(l) ==
    /\ AllDigits(l.ip) /\ AllDigits(l.fp)
    /\ Len(l.ip) + Len(l.fp) >= 1
    /\ l.hasE => (Len(l.xd) >= 1 /\ AllDigits(l.xd))

IsNumeric(w) == IsNumericLiteral(Literal(w))

\* big.js parse of a literal matching NUMERIC: n its digits, nz the places
\* of the non-zero ones, e the exponent of the first digit.
ParseDigits(s, n, nz, e) ==
    IF nz = {} THEN MkZero(s)
    ELSE The({ [s |-> s,
                c |-> [j \in 1..(b[2] - b[1] + 1) |-> DigitVal(n[b[1] + j - 1])],
                e |-> e - (b[1] - 1) - 1]
               : b \in { <<CHOOSE j \in nz : \A k \in nz : j <= k,
                           CHOOSE j \in nz : \A k \in nz : j >= k>> } })

ParseLiteral(l) ==
    ParseDigits(IF l.neg THEN -1 ELSE 1,
                l.ip \o l.fp,
                {i \in 1..(Len(l.ip) + Len(l.fp)) : (l.ip \o l.fp)[i] # "0"},
                Len(l.ip) + (IF l.hasE
                             THEN (IF l.xneg THEN -1 ELSE 1)
                                    * DigitsToInt(l.xd, 0)
                             ELSE 0))

ParseNumeric(w) == ParseLiteral(Literal(w))

\* A Big that takes strings and Big instances only.
BigAcceptsStringsOnly(n) == n.t = "big" \/ (n.t = "string" /\ IsNumeric(n.v))

\* new Big(n): whether it returns, and what.
BigAccepts(n) == n.t = "big" \/ IsNumeric(n.v)

BigNew(n) == IF n.t = "big" THEN n.big ELSE ParseNumeric(n.v)

(***************************************************************************)
(* ECMAScript Numbers.  A finite Number is the IEEE 754 double             *)
(* s * m * 2^e with 2^52 <= m < 2^53, or a zero (m = 0); subnormals and    *)
(* overflow are beyond the amounts considered here.                        *)
(***************************************************************************)
NumberZero(s) == [s |-> s, m |-> <<0>>, e |-> 0]

\* n * 2^j for j > 0, n otherwise.
TimesPow2(n, j) == IF j > 0 THEN NatMul(n, PowNat(<<2>>, j)) ELSE n

\* 2^j <= num / den < 2^(j + 1).
IsBinaryExponent(num, den, j) ==
    /\ NatCmp(TimesPow2(den, j), TimesPow2(num, -j)) <= 0
    /\ NatCmp(TimesPow2(num, -(j + 1)), TimesPow2(den, j + 1)) < 0

\* The quotient qr[1] of num / den and its remainder qr[2], rounded to the
\* nearest integer, ties to even.
NearestEven(qr, den) ==
    IF \/ NatCmp(NatAdd(qr[2], qr[2]), den) = 1
       \/ /\ NatCmp(NatAdd(qr[2], qr[2]), den) = 0
          /\ qr[1][Len(qr[1])] % 2 = 1
    THEN NatAdd(qr[1], <<1>>)
    ELSE qr[1]

\* The double of sign s nearest to num / den, its binary exponent being
\* e + 52: the significand is the quotient by 2^e rounded ties-to-even.
DoubleRounded(s, num, den, e) ==
    The({ IF m = PowNat(<<2>>, 53)
          THEN [s |-> s, m |-> PowNat(<<2>>, 52), e |-> e + 1]
          ELSE [s |-> s, m |-> m, e |-> e]
          : m \in { NearestEven(NatDivMod(TimesPow2(num, -e),
                                          TimesPow2(den, e)),
                                TimesPow2(den, e)) } })

\* The first three digits of n as an integer, n taken to have at least
\* three digits.
LeadingDigits(n) ==
    100 * n[1] + (IF Len(n) >= 2 THEN 10 * n[2] ELSE 0)
      + (IF Len(n) >= 3 THEN n[3] ELSE 0)

\* A first guess at the binary exponent of num / den, from the leading
\* digits and log2(10) = 3.3219... times the difference in decimal digits.
ExponentGuess(num, den) ==
    (((Len(num) - Len(den)) * 33219) \div 10000)
      + (CHOOSE t \in -4..3 :
            /\ (IF t >= 0 THEN (2 ^ t) * LeadingDigits(den)
                ELSE LeadingDigits(den)) 
                  <= (IF t >= 0 THEN LeadingDigits(num)
                      ELSE (2 ^ (-t)) * LeadingDigits(num))
            /\ (IF t + 1 >= 0 THEN (2 ^ (t + 1)) * (LeadingDigits(den) + 1)
                ELSE LeadingDigits(den) + 1)
                  > (IF t + 1 >= 0 THEN LeadingDigits(num)
                     ELSE (2 ^ (-(t + 1))) * LeadingDigits(num)))

\* The double of sign s nearest to the rational num / den (round to
\* nearest, ties to even), which is the Number value of a decimal literal.
\* The binary exponent is looked for at the first guess and the one above
\* it, and failing those in the whole range the decimal digits allow.
DoubleOf(s, num, den) ==
    IF NatIsZero(num) THEN NumberZero(s)
    ELSE The({ DoubleRounded(s, num, den,
                 (IF IsBinaryExponent(num, den, g) THEN g
                  ELSE IF IsBinaryExponent(num, den, g + 1) THEN g + 1
                  ELSE CHOOSE j \in
                         (((Len(num) - Len(den) - 1) * 3321) \div 1000 - 1)
                         ..(((Len(num) - Len(den) + 1) * 3322) \div 1000 + 1) :
                         IsBinaryExponent(num, den, j)) - 52)
               : g \in {ExponentGuess(num, den)} })

\* v * 2^j as a natural number of units of 10^-k, where k is 0 for j >= 0
\* and -j otherwise.
ExactDecimal(v, j) ==
    IF j >= 0 THEN NatMul(v, PowNat(<<2>>, j))
    ELSE NatMul(v, PowNat(<<5>>, -j))

\* The decimals of n significant digits next to nx, below and above.
Neighbours(nx, n) ==
    { SubSeq(nx, 1, n) \o Zeros(Len(nx) - n),
      NatAdd(SubSeq(nx, 1, n), <<1>>) \o Zeros(Len(nx) - n) }

\* Whether the decimal c reads back as the double whose value is nx: it is
\* between the midpoints nl and nh to the neighbouring doubles, the
\* midpoints themselves reading back as it when its significand is even.
ReadsBack(c, nl, nh, even) ==
    IF even THEN NatCmp(nl, c) <= 0 /\ NatCmp(c, nh) <= 0
    ELSE NatCmp(nl, c) < 0 /\ NatCmp(c, nh) < 0

\* The fewest significant digits, between lo and hi, of a decimal that
\* reads back as the double.  If a decimal of n digits reads back, one of
\* n + 1 digits does, so that the range can be halved.
RECURSIVE FewestDigits(_, _, _, _, _, _)
FewestDigits(lo, hi, nx, nl, nh, even) ==
    IF lo = hi THEN lo
    ELSE IF \E c \in Neighbours(nx, (lo + hi) \div 2) :
               ReadsBack(c, nl, nh, even)
    THEN FewestDigits(lo, (lo + hi) \div 2, nx, nl, nh, even)
    ELSE FewestDigits((lo + hi) \div 2 + 1, hi, nx, nl, nh, even)

\* Number::toString's digits: among the decimals of the fewest significant
\* digits that read back as the double, the one closest to it.  nx, nl and
\* nh are the double and the two midpoints, in the same units.
ShortestOf(nx, nl, nh, even) ==
    The({ CHOOSE c \in cs : \A d \in cs :
              NatCmp(IF NatCmp(c, nx) >= 0 THEN NatSub(c, nx)
                     ELSE NatSub(nx, c),
                     IF NatCmp(d, nx) >= 0 THEN NatSub(d, nx)
                     ELSE NatSub(nx, d)) <= 0
          : cs \in { { c \in Neighbours(nx, FewestDigits(1, 17, nx, nl, nh,
                                                         even)) :
                         ReadsBack(c, nl, nh, even) } } })

\* The shortest decimal that reads back as the non-zero double x, as a Big.
\* The midpoints are taken in quarters of the unit in the last place: the
\* double below a power of two is half as far away.
ShortestDecimal(x) ==
    MkBig(x.s,
          ShortestOf(ExactDecimal(NatMul(<<4>>, x.m), x.e - 2),
                     ExactDecimal(NatSub(NatMul(<<4>>, x.m),
                                         IF x.m = PowNat(<<2>>, 52)
                                         THEN <<1>> ELSE <<2>>),
                                  x.e - 2),
                     ExactDecimal(NatAdd(NatMul(<<4>>, x.m), <<2>>), x.e - 2),
                     x.m[Len(x.m)] % 2 = 0),
          Max(0, 2 - x.e))

DigitsToChars(n) == [i \in 1..Len(n) |-> DigitChars[n[i] + 1]]

\* The decimal of digits c and exponent e written out in full, as
\* Number::toString does for 10^-6 <= x < 10^21 and Big.prototype.toFixed
\* does always.
Positional(c, e) ==
    IF e < 0 THEN <<"0", ".">> \o DigitsToChars(Zeros(-e - 1) \o c)
    ELSE IF Len(c) > e + 1
    THEN DigitsToChars(SubSeq(c, 1, e + 1)) \o <<".">>
           \o DigitsToChars(SubSeq(c, e + 2, Len(c)))
    ELSE DigitsToChars(c \o Zeros(e + 1 - Len(c)))

\* The decimal of digits c and exponent e in exponential notation.
Exponential(c, e) ==
    <<DigitChars[c[1] + 1]>>
      \o (IF Len(c) > 1 THEN <<".">> \o DigitsToChars(Tail(c)) ELSE <<>>)
      \o <<"e", IF e < 0 THEN "-" ELSE "+">>
      \o DigitsToChars(IntToNat(IF e < 0 THEN -e ELSE e))

\* Number::toString(x), radix 10.
NumberToString(x) ==
    IF NatIsZero(x.m) THEN <<"0">>
    ELSE The({ (IF x.s < 0 THEN <<"-">> ELSE <<>>)
                 \o (IF d.e >= -6 /\ d.e < 21 THEN Positional(d.c, d.e)
                     ELSE Exponential(d.c, d.e))
               : d \in {ShortestDecimal(x)} })

\* Number.parseFloat of a decimal literal without exponent.
parseFloat(w) ==
    The({ DoubleOf(b.s, Coef(b), <<1>> \o Zeros(FracDigits(b)))
          : b \in {ParseNumeric(w)} })

\* Big.prototype.toFixed(), no argument: the sign of a zero is not shown.
toFixed(x) ==
    (IF x.s < 0 /\ ~BigIsZero(x) THEN <<"-">> ELSE <<>>)
      \o Positional(x.c, x.e)

\* new Big(n) for a Number n: big.js parses String(n), and '-0' for the
\* negative zero.
BigOfNumber(x) ==
    IF NatIsZero(x.m) /\ x.s < 0 THEN MkZero(-1)
    ELSE ParseNumeric(NumberToString(x))

(***************************************************************************)
(* Currency metadata: Intl.NumberFormat(undefined, {style: 'currency',     *)
(* currency}) and its resolvedOptions().  A currency code is the sequence  *)
(* of its characters.  The constructor throws unless the code is three     *)
(* letters; the resolved code is in upper case and minimumFractionDigits   *)
(* is the currency's number of minor-unit digits (2 when unlisted).        *)
(***************************************************************************)
LowerChars == <<"a", "b", "c", "d", "e", "f", "g", "h", "i", "j", "k", "l", "m",
                "n", "o", "p", "q", "r", "s", "t", "u", "v", "w", "x", "y", "z">>

UpperChars == <<"A", "B", "C", "D", "E", "F", "G", "H", "I", "J", "K", "L", "M",
                "N", "O", "P", "Q", "R", "S", "T", "U", "V", "W", "X", "Y", "Z">>

IsLetter(ch) == \E i \in 1..26 : LowerChars[i] = ch \/ UpperChars[i] = ch

ToUpperChar(ch) ==
    IF \E i \in 1..26 : LowerChars[i] = ch
    THEN UpperChars[CHOOSE i \in 1..26 : LowerChars[i] = ch]
    ELSE ch

ToUpperCase(w) == [i \in 1..Len(w) |-> ToUpperChar(w[i])]

EUR == <<"E", "U", "R">>

USD == <<"U", "S", "D">>

IRR == <<"I", "R", "R">>

IQD == <<"I", "Q", "D">>

IntlWellFormed(currency) ==
    Len(currency) = 3 /\ \A i \in 1..3 : IsLetter(currency[i])

IntlFractionDigits(code) ==
    CASE code = IRR -> 0
      [] code = IQD -> 3
      [] OTHER      -> 2

\* A NumberFormatEntry whose resolved currency is the code as it was given.
NumberFormatEntryNewAsGiven(currency) ==
    [currency              |-> currency,
     minimumFractionDigits |-> IntlFractionDigits(ToUpperCase(currency))]

\* new NumberFormatEntry(numberFormat), lines 276-279: the resolved options.
NumberFormatEntryNew(currency) ==
    [currency              |-> ToUpperCase(currency),
     minimumFractionDigits |-> IntlFractionDigits(ToUpperCase(currency))]

NoEntry == [currency |-> <<>>, minimumFractionDigits |-> 0]

\* A NumberFormatEntry.get that keeps the entry it has just made and no
\* other.
NumberFormatEntryGetLatestOnly(cache, currency) ==
    IF currency \in DOMAIN cache
    THEN [ok |-> TRUE, entry |-> cache[currency], cache |-> cache]
    ELSE IF currency.t # "undefined" /\ IntlWellFormed(currency.v)
    THEN [ok    |-> TRUE,
          entry |-> NumberFormatEntryNew(currency.v),
          cache |-> (currency :> NumberFormatEntryNew(currency.v))]
    ELSE [ok |-> FALSE, entry |-> NoEntry, cache |-> cache]

\* NumberFormatEntry.get, lines 281-292, on the cache currencyNumberFormats:
\* whether it returns, the entry, and the cache afterwards.  The currency is
\* whatever value the caller passed: the Map is keyed by the value itself,
\* and Intl.NumberFormat reads the option through its conversion to a
\* string.
NumberFormatEntryGet(cache, currency) ==
    IF currency \in DOMAIN cache
    THEN [ok |-> TRUE, entry |-> cache[currency], cache |-> cache]
    ELSE IF currency.t # "undefined" /\ IntlWellFormed(currency.v)
    THEN [ok    |-> TRUE,
          entry |-> NumberFormatEntryNew(currency.v),
          cache |-> cache @@ (currency :> NumberFormatEntryNew(currency.v))]
    ELSE [ok |-> FALSE, entry |-> NoEntry, cache |-> cache]

\* getCurrencyFractionDigits, lines 295-298, of the currency string of a
\* Money, given by its characters.
getCurrencyFractionDigits(cache, currency) ==
    The({ [ok |-> g.ok, digits |-> g.entry.minimumFractionDigits,
           cache |-> g.cache]
          : g \in {NumberFormatEntryGet(cache, Str(currency))} })

(***************************************************************************)
(* Money.  A Money value is its amount, its currency and the class         *)
(* (family) it is an instance of.  What a call returns or throws is an     *)
(* outcome record; the operators that touch the cache return the outcome   *)
(* together with the cache afterwards.                                     *)
(***************************************************************************)
NoMoney == [amount |-> MkZero(1), currency |-> <<>>, family |-> "none"]

\* The value undefined: an argument or an option that is not given.
Undefined == Obj("undefined", <<"u", "n", "d", "e", "f", "i", "n", "e", "d">>)

\* The options Number.prototype.toLocaleString is handed: style, currency,
\* whatever else the caller passed (rest), and whether the object has a
\* precisionHandling key.
NoFormatOptions ==
    [style |-> Undefined, currency |-> Undefined, rest |-> "none",
     hasPrecisionHandling |-> FALSE]

\* What toLocaleString has to show for a call: whether it invoked the locale
\* renderer (Number.prototype.toLocaleString), on which number, locale and
\* options, and the mark put around the rendered string (prefix, suffix).
NoText ==
    [invoked |-> FALSE, number |-> NumberZero(1), locale |-> "undefined",
     options |-> NoFormatOptions, mark |-> <<"", "">>]

NoOutcome ==
    [kind |-> "none", err |-> "", money |-> NoMoney, big |-> MkZero(1),
     bool |-> FALSE, num |-> 0, number |-> NumberZero(1), text |-> NoText,
     str |-> <<>>]

Throw(e) == [NoOutcome EXCEPT !.kind = "error", !.err = e]

RetMoney(m) == [NoOutcome EXCEPT !.kind = "money", !.money = m]

RetBig(x) == [NoOutcome EXCEPT !.kind = "big", !.big = x]

RetBool(v) == [NoOutcome EXCEPT !.kind = "bool", !.bool = v]

RetNum(v) == [NoOutcome EXCEPT !.kind = "num", !.num = v]

RetNumber(x) == [NoOutcome EXCEPT !.kind = "number", !.number = x]

RetNull == [NoOutcome EXCEPT !.kind = "null"]

RetStr(chars) == [NoOutcome EXCEPT !.kind = "str", !.str = chars]

\* static get defaultRoundingMode, lines 216-218.
defaultRoundingMode(family) == BigRM(family)

\* A roundCurrencyFraction that looks the currency up and returns the amount
\* as it got it.
roundCurrencyFractionUnrounded(cache, family, big, currency, roundingMode) ==
    The({ [ok |-> f.ok, big |-> big, cache |-> f.cache]
          : f \in {getCurrencyFractionDigits(cache, currency)} })

\* A roundCurrencyFraction that always rounds under the family's default
\* mode, whatever mode is passed.
roundCurrencyFractionDefaultMode(cache, family, big, currency, roundingMode) ==
    The({ [ok    |-> f.ok,
           big   |-> IF f.ok
                     THEN BigRound(big, f.digits, defaultRoundingMode(family))
                     ELSE big,
           cache |-> f.cache]
          : f \in {getCurrencyFractionDigits(cache, currency)} })

\* roundCurrencyFraction, lines 227-231.
roundCurrencyFraction(cache, family, big, currency, roundingMode) ==
    The({ [ok    |-> f.ok,
           big   |-> IF f.ok
                     THEN BigRound(big, f.digits,
                                   IF roundingMode # UNDEFINED
                                   THEN roundingMode
                                   ELSE defaultRoundingMode(family))
                     ELSE big,
           cache |-> f.cache]
          : f \in {getCurrencyFractionDigits(cache, currency)} })

\* A createUnchecked that always builds an instance of the base class.
createUncheckedBase(family, amount, currency) ==
    [amount |-> amount, currency |-> currency, family |-> "Money"]

\* createUnchecked, lines 44-49.
createUnchecked(family, amount, currency) ==
    [amount |-> amount, currency |-> currency, family |-> family]

\* The constructor, lines 35-37, once the amount is parsed and rounded (r).
MoneyConstructed(family, currency, r) ==
    IF ~r.ok THEN [r |-> Throw("InvalidCurrency"), cache |-> r.cache]
    ELSE [r     |-> RetMoney([amount   |-> r.big,
                              currency |-> currency,
                              family   |-> family]),
          cache |-> r.cache]

\* The constructor, lines 31-37, once the currency is looked up (g).
MoneyParsed(g, family, amount, roundingMode) ==
    IF ~g.ok THEN [r |-> Throw("InvalidCurrency"), cache |-> g.cache]
    ELSE IF ~BigAccepts(amount)
    THEN [r |-> Throw("InvalidAmount"), cache |-> g.cache]
    ELSE MoneyConstructed(family, g.entry.currency,
                          roundCurrencyFraction(g.cache, family, BigNew(amount),
                                                g.entry.currency, roundingMode))

\* The constructor, lines 27-38.
MoneyNew(cache, family, amount, currency, roundingMode) ==
    MoneyParsed(NumberFormatEntryGet(cache, currency), family, amount,
                roundingMode)

\* A verifyCompatibleCurrency that lets every pair of currencies through.
verifyAnyCurrency(currency1, currency2) == TRUE

\* verifyCompatibleCurrency, lines 304-308: whether it returns.
verifyCompatibleCurrency(currency1, currency2) == currency1 = currency2

\* A div that tests the dividend for zero before the divisor.
BigDivDividendFirst(family, x, y) ==
    IF BigIsZero(x) THEN RetBig(MkZero(IF x.s = y.s THEN 1 ELSE -1))
    ELSE IF BigIsZero(y) THEN Throw("DivisionByZero")
    ELSE RetBig(BigDivRounded(x, y, BigDP(family), BigRM(family)))

\* Big.prototype.div of the engine of the given family: the divisor is
\* tested for zero first, and the quotient is rounded to the engine's DP
\* decimal places under the engine's RM.
BigDiv(family, x, y) ==
    IF BigIsZero(y) THEN Throw("DivisionByZero")
    ELSE RetBig(BigDivRounded(x, y, BigDP(family), BigRM(family)))

\* Big.prototype.mod.
BigMod(x, y) ==
    IF BigIsZero(y) THEN Throw("DivisionByZero")
    ELSE RetBig(BigModNonZero(x, y))

\* self.amount[op](y) for the operations of big.js used by the library; y is
\* a Big.  The engine is that of self's amount.
BigApply(family, op, x, y) ==
    CASE op = "plus"  -> RetBig(BigPlus(x, y))
      [] op = "minus" -> RetBig(BigMinus(x, y))
      [] op = "times" -> RetBig(BigTimes(x, y))
      [] op = "div"   -> BigDiv(family, x, y)
      [] op = "mod"   -> BigMod(x, y)
      [] op = "lt"    -> RetBool(BigLt(x, y))
      [] op = "lte"   -> RetBool(BigLte(x, y))
      [] op = "gt"    -> RetBool(BigGt(x, y))
      [] op = "gte"   -> RetBool(BigGte(x, y))
      [] op = "cmp"   -> RetNum(BigCmp(x, y))

\* applyUnitOp, line 239, on what line 238 returned or threw.
UnitCreated(self, amount) ==
    IF amount.kind = "error" THEN amount
    ELSE RetMoney(createUnchecked(self.family, amount.big, self.currency))

\* applyUnitOp, lines 236-240.
applyUnitOp(op, self, other) ==
    IF ~verifyCompatibleCurrency(self.currency, other.currency)
    THEN Throw("CurrencyMismatch")
    ELSE UnitCreated(self,
                     BigApply(self.family, op, self.amount, other.amount))

\* applyScalarOp, line 249, on what line 248 returned.
ScalarCreated(self, r) ==
    IF ~r.ok THEN [r |-> Throw("InvalidCurrency"), cache |-> r.cache]
    ELSE [r     |-> RetMoney(createUnchecked(self.family, r.big,
                                             self.currency)),
          cache |-> r.cache]

\* applyScalarOp, lines 248-249, on what line 247 returned or threw.
ScalarRounded(cache, self, amount, roundingMode) ==
    IF amount.kind = "error" THEN [r |-> amount, cache |-> cache]
    ELSE ScalarCreated(self,
                       roundCurrencyFraction(cache, self.family, amount.big,
                                             self.currency, roundingMode))

\* applyScalarOp, lines 245-250.
applyScalarOp(cache, op, self, n, roundingMode) ==
    IF ~BigAccepts(n) THEN [r |-> Throw("InvalidNumber"), cache |-> cache]
    ELSE ScalarRounded(cache, self,
                       BigApply(self.family, op, self.amount, BigNew(n)),
                       roundingMode)

\* applyCmpOp, lines 255-258.
applyCmpOp(op, self, other) ==
    IF ~verifyCompatibleCurrency(self.currency, other.currency)
    THEN Throw("CurrencyMismatch")
    ELSE BigApply(self.family, op, self.amount, other.amount)

add(self, other) == applyUnitOp("plus", self, other)

\* A sub that adds.
subAsPlus(self, other) == applyUnitOp("plus", self, other)

sub(self, other) == applyUnitOp("minus", self, other)

\* A mul that drops the rounding mode it is passed.
mulDefaultRounding(cache, self, n, roundingMode) ==
    applyScalarOp(cache, "times", self, n, UNDEFINED)

mul(cache, self, n, roundingMode) ==
    applyScalarOp(cache, "times", self, n, roundingMode)

div(cache, self, n, roundingMode) ==
    applyScalarOp(cache, "div", self, n, roundingMode)

mod(self, other) == applyUnitOp("mod", self, other)

\* An eq that compares the amounts alone.
eqAmountOnly(self, other) == RetBool(BigEq(self.amount, other.amount))

eq(self, other) ==
    RetBool(self.currency = other.currency /\ BigEq(self.amount, other.amount))

lt(self, other) == applyCmpOp("lt", self, other)

\* An lte that is strict.
lteStrict(self, other) == applyCmpOp("lt", self, other)

lte(self, other) == applyCmpOp("lte", self, other)

gt(self, other) == applyCmpOp("gt", self, other)

gte(self, other) == applyCmpOp("gte", self, other)

cmp(self, other) == applyCmpOp("cmp", self, other)

abs(self) ==
    RetMoney(createUnchecked(self.family, BigAbs(self.amount), self.currency))

\* A ratioOf that truncates the quotient at the engine's DP decimal places.
ratioOfTruncated(self, other) ==
    IF ~verifyCompatibleCurrency(self.currency, other.currency)
    THEN Throw("CurrencyMismatch")
    ELSE IF BigIsZero(other.amount) THEN Throw("DivisionByZero")
    ELSE RetBig(BigDivRounded(self.amount, other.amount, BigDP(self.family),
                              RoundDown))

\* ratioOf, lines 99-102.
ratioOf(self, other) ==
    IF ~verifyCompatibleCurrency(self.currency, other.currency)
    THEN Throw("CurrencyMismatch")
    ELSE BigApply(self.family, "div", self.amount, other.amount)

\* A convertCurrency that takes the unchecked fast path: no lookup of the
\* currency, no rounding of the product.
convertCurrencyUnchecked(cache, self, currency, ratio) ==
    [r     |-> RetMoney(createUnchecked(self.family,
                                        BigTimes(self.amount, BigNew(ratio)),
                                        ToUpperCase(currency.v))),
     cache |-> cache]

\* convertCurrency, lines 188-190: the product is computed first, then the
\* constructor runs on it.
convertCurrency(cache, self, currency, ratio) ==
    IF ~BigAccepts(ratio) THEN [r |-> Throw("InvalidNumber"), cache |-> cache]
    ELSE MoneyNew(cache, self.family,
                  BigVal(BigTimes(self.amount, BigNew(ratio))),
                  currency, UNDEFINED)

hasSameCurrency(self, other) == RetBool(self.currency = other.currency)

\* isBigZero, lines 300-302.
isBigZero(big) == Len(big.c) = 1 /\ big.c[1] = 0

\* toNumberUnchecked, lines 181-186.
toNumberUnchecked(self) == RetNumber(parseFloat(toFixed(self.amount)))

\* toSafeNumberOrNull, lines 173-177, once the number is back in a Big and
\* rounded (r).
SafeNumberCompared(number, amount, r) ==
    [r     |-> IF ~r.ok THEN Throw("InvalidCurrency")
               ELSE IF BigEq(amount, r.big) THEN RetNumber(number)
               ELSE RetNull,
     cache |-> r.cache]

\* A toSafeNumberOrNull that returns the number without the round trip.
toSafeNumberOrNullUnchecked(cache, self) ==
    [r |-> toNumberUnchecked(self), cache |-> cache]

\* toSafeNumberOrNull, lines 166-178: the round trip from Big to Number to
\* Big.
toSafeNumberOrNull(cache, self) ==
    The({ SafeNumberCompared(number, self.amount,
                             roundCurrencyFraction(cache, self.family,
                                                   BigOfNumber(number),
                                                   self.currency, UNDEFINED))
          : number \in {parseFloat(toFixed(self.amount))} })

\* A toSafeNumber that returns null as it is.
toSafeNumberUnguarded(cache, self) == toSafeNumberOrNull(cache, self)

\* toSafeNumber, lines 158-164.
toSafeNumber(cache, self) ==
    The({ IF n.r.kind = "null"
          THEN [r |-> Throw("UnsafePrecision"), cache |-> n.cache]
          ELSE n
          : n \in {toSafeNumberOrNull(cache, self)} })

\* isSafeNumber, lines 192-194.
isSafeNumber(cache, self) ==
    The({ IF n.r.kind = "error" THEN n
          ELSE [r |-> RetBool(n.r.kind # "null"), cache |-> n.cache]
          : n \in {toSafeNumberOrNull(cache, self)} })

\* toDecimalString, lines 154-156.
toDecimalString(self) == RetStr(toFixed(self.amount))

\* A toString that writes the amount to the currency's fraction digits at
\* most, cutting off what is beyond them.
toStringCut(self) ==
    RetStr(self.currency \o <<" ">>
             \o toFixed(BigRound(self.amount, 0, RoundDown)))

\* toString, lines 104-106.
toString(self) ==
    RetStr(self.currency \o <<" ">> \o toDecimalString(self).str)

\* A sign that is the sign the amount is stored with.
signStored(self) == RetNum(self.amount.s)

\* sign, lines 208-210.
sign(self) == RetNum(IF isBigZero(self.amount) THEN 0 ELSE self.amount.s)

\* isZero, lines 196-198.
isZero(self) == RetBool(isBigZero(self.amount))

\* isNegative, lines 200-202.
isNegative(self) == RetBool(sign(self).num < 0)

\* isPositive, lines 204-206.
isPositive(self) == RetBool(sign(self).num > 0)

\* PrecisionHandling, lines 16-20: the object's own keys, which are also
\* its values.
PrecisionSafe == <<"s", "a", "f", "e">>

PrecisionUnchecked == <<"u", "n", "c", "h", "e", "c", "k", "e", "d">>

PrecisionShowImprecision == 
    <<"s", "h", "o", "w", "_", "i", "m", "p", "r", "e", "c", "i", "s", "i", "o", "n">>

PrecisionHandling ==
    {PrecisionSafe, PrecisionUnchecked, PrecisionShowImprecision}

StyleCurrency == <<"c", "u", "r", "r", "e", "n", "c", "y">>

\* Object.assign({style: 'currency', currency: this.currency}, options),
\* lines 109-112: an option given replaces the default, and every key of
\* options is a key of the result.
AssignOptions(self, options) ==
    [style    |-> IF options.style = Undefined THEN Str(StyleCurrency)
                  ELSE options.style,
     currency |-> IF options.currency = Undefined THEN Str(self.currency)
                  ELSE options.currency,
     rest     |-> options.rest,
     hasPrecisionHandling |-> options.hasPrecisionHandling]

\* number.toLocaleString(locale, formatOptions), line 137: the locale
\* renderer.  It throws on options it does not accept (here a
\* minimumFractionDigits of 100); what it returns is kept as the call it is
\* the result of.
Rendered(number, locale, formatOptions) ==
    IF formatOptions.rest = "minimumFractionDigits: 100"
    THEN [Throw("RangeError") EXCEPT
             !.text = [NoText EXCEPT !.invoked = TRUE, !.number = number,
                                     !.locale = locale,
                                     !.options = formatOptions]]
    ELSE [NoOutcome EXCEPT
             !.kind = "string",
             !.text = [NoText EXCEPT !.invoked = TRUE, !.number = number,
                                     !.locale = locale,
                                     !.options = formatOptions]]

\* formatImprecision, lines 150-152, and its override in the class
\* MoneyCustomImprecision of test.js (lines 532-541).
formatImprecision(family, formatted, locale, options) ==
    IF family = "MoneyCustomImprecision" /\ locale = "en-US"
    THEN [formatted EXCEPT !.text.mark = <<"around ", " or so">>]
    ELSE IF family = "MoneyCustomImprecision" /\ locale = "en-UK"
    THEN [formatted EXCEPT !.text.mark = <<"circa ", "">>]
    ELSE [formatted EXCEPT !.text.mark = <<"~\\u00A0", "">>]

\* A toLocaleString step that marks whatever was rendered under
\* show_imprecision.
LocaleStringMarkedAlways(self, locale, formatOptions, precisionHandling, number, safe) ==
    IF number.kind = "error" THEN number
    ELSE IF precisionHandling = Str(PrecisionShowImprecision)
    THEN The({ IF formatted.kind = "error" THEN formatted
               ELSE formatImprecision(self.family, formatted, locale,
                                      formatOptions)
               : formatted \in {Rendered(number.number, locale, formatOptions)} })
    ELSE Rendered(number.number, locale, formatOptions)

\* toLocaleString, lines 137-141, once the number is there (or the error
\* raised in getting it); safe is whether the amount is a safe number.
LocaleStringFormatted(self, locale, formatOptions, precisionHandling, number, safe) ==
    IF number.kind = "error" THEN number
    ELSE IF precisionHandling = Str(PrecisionShowImprecision) /\ ~safe
    THEN The({ IF formatted.kind = "error" THEN formatted
               ELSE formatImprecision(self.family, formatted, locale,
                                      formatOptions)
               : formatted \in {Rendered(number.number, locale, formatOptions)} })
    ELSE Rendered(number.number, locale, formatOptions)

\* A toLocaleString step that gets the number unchecked whatever the
\* precision handling.
LocaleStringNumberedUnchecked(self, locale, formatOptions, precisionHandling, n) ==
    LocaleStringFormatted(self, locale, formatOptions, precisionHandling,
                          toNumberUnchecked(self), n.r.kind # "null")

\* toLocaleString, lines 130-141, once the options are checked: the number
\* is got unchecked or safely, as the precision handling has it.  n is
\* what toSafeNumberOrNull returns.
LocaleStringNumbered(self, locale, formatOptions, precisionHandling, n) ==
    LocaleStringFormatted(self, locale, formatOptions, precisionHandling,
        IF precisionHandling \in {Str(PrecisionUnchecked),
                                  Str(PrecisionShowImprecision)}
        THEN toNumberUnchecked(self)
        ELSE IF n.r.kind = "null" THEN Throw("UnsafePrecision")
        ELSE n.r,
        n.r.kind # "null")

\* Lines 120-123: Object.prototype.hasOwnProperty.call(PrecisionHandling,
\* precisionHandling), for a value that is not undefined.  The value is
\* converted to a property key, that is to a string.
ValidPrecisionHandling(precisionHandling) ==
    precisionHandling.v \in PrecisionHandling

\* A check of the currency option that looks at it whatever the style.
CurrencyOverriddenAnyStyle(self, formatOptions) ==
    formatOptions.currency # Str(self.currency)

\* Lines 115-117: the currency option overrides the currency of the Money.
CurrencyOverridden(self, formatOptions) ==
    /\ formatOptions.style = Str(StyleCurrency)
    /\ formatOptions.currency # Str(self.currency)

\* formatOptions as it is from line 128 on: delete
\* formatOptions.precisionHandling (line 127) is in the branch of a
\* precisionHandling that is not undefined (lines 120-128).
FormatOptions(self, options) ==
    IF options.precisionHandling = Undefined
    THEN AssignOptions(self, options)
    ELSE [AssignOptions(self, options) EXCEPT !.hasPrecisionHandling = FALSE]

\* toLocaleString, lines 108-142.
toLocaleString(cache, self, locale, options) ==
    IF CurrencyOverridden(self, AssignOptions(self, options))
    THEN [r |-> Throw("CurrencyOverrideNotAllowed"), cache |-> cache]
    ELSE IF /\ options.precisionHandling # Undefined
            /\ ~ValidPrecisionHandling(options.precisionHandling)
    THEN [r |-> Throw("InvalidOption"), cache |-> cache]
    ELSE IF options.precisionHandling = Str(PrecisionUnchecked)
    THEN [r     |-> LocaleStringFormatted(self, locale,
                                          FormatOptions(self, options),
                                          options.precisionHandling,
                                          toNumberUnchecked(self), TRUE),
          cache |-> cache]
    ELSE The({ [r     |-> IF n.r.kind = "error" THEN n.r
                          ELSE LocaleStringNumbered(self, locale,
                                   FormatOptions(self, options),
                                   options.precisionHandling, n),
                cache |-> n.cache]
               : n \in {toSafeNumberOrNull(cache, self)} })

(***************************************************************************)
(* The state machine: a caller holding one Money reference, a, that makes  *)
(* one call at a time.  out is the call last made, with its arguments as   *)
(* they were and what it returned or threw; the only state of the library  *)
(* itself is the cache currencyNumberFormats (line 7).                     *)
(***************************************************************************)
VARIABLES a, out, currencyNumberFormats

vars == <<a, out, currencyNumberFormats>>

\* Largest amount, in minor units of its currency, of an operation's result
\* that the caller goes on computing with.
MaxKeep == 3

AmountInputs ==
    { Str(<<"1", "0", "0", ".", "0", "0">>),
      Str(<<"0", ".", "0", "1">>),
      Str(<<"-", ".", "1", "7", "3">>),
      Str(<<"-", "0", ".", "0", "0", "5">>),
      Num(<<"0">>),
      Str(<<"2", "3", "4", "0", "5", "1", "6", "0", "0", "3", "2", "4", "5", "1">>),
      Str(<<"a", "s", "d", "f">>) }

CurrencyInputs == {Str(EUR), Str(IRR), Str(<<"e", "u", "r">>), Str(<<>>)}

\* The amounts and currencies of the Money passed as the other operand.
OperandAmounts ==
    { Str(<<"0", ".", "0", "1">>),
      Str(<<"7">>),
      Num(<<"0">>) }

OperandCurrencies == {Str(EUR), Str(IRR)}

ScalarInputs ==
    { Num(<<"0">>),
      Num(<<"3">>),
      Str(<<"0", ".", "3", "3", "3", "3">>),
      Str(<<"-", "1", ".", "7", "5">>),
      Num(<<"1", "e", "+", "2", "2">>) }

RateInputs ==
    { Str(<<"4", "2", "1", "0", "5">>),
      Str(<<"0", ".", "0", "0", "5">>) }

ConvertInputs == {Str(IRR), Str(<<"e", "u", "r">>), Str(<<>>)}

RoundingInputs == RoundingModes \cup {UNDEFINED}

\* The options of a toLocaleString call; none given is all of them
\* undefined.
\* The options object of a call: a key whose value is Undefined is not
\* given, but for precisionHandling, which the object may have as a key
\* with the value undefined (hasPrecisionHandling).
NoOptions ==
    [style |-> Undefined, currency |-> Undefined,
     precisionHandling |-> Undefined, rest |-> "none",
     hasPrecisionHandling |-> FALSE]

NoCall ==
    [op |-> "none", self |-> NoMoney, other |-> NoMoney, n |-> Str(<<>>),
     rm |-> UNDEFINED, cur |-> Str(<<>>), family |-> "none",
     locale |-> "undefined", options |-> NoOptions, r |-> NoOutcome]

Init ==
    /\ a = NoMoney
    /\ out = NoCall
    /\ currencyNumberFormats = <<>>

Idle == out.op = "none"

Constructed(m) == m.family # "none"

\* The call returns or throws: out is the call with its outcome, and the
\* cache is as the call left it.
Returns(call, res) ==
    /\ out' = [call EXCEPT !.r = res.r]
    /\ currencyNumberFormats' = res.cache
    /\ UNCHANGED a

\* new Money(amount, currency, roundingMode) or new MoneyUp(...).
New(family, amount, currency, roundingMode) ==
    /\ Idle
    /\ Returns([NoCall EXCEPT !.op = "new", !.n = amount, !.cur = currency,
                              !.rm = roundingMode, !.family = family],
               MoneyNew(currencyNumberFormats, family, amount, currency,
                        roundingMode))

\* The operations that take a Money.
BinaryOps ==
    {"add", "sub", "mod", "eq", "lt", "lte", "gt", "gte", "cmp", "ratioOf",
     "hasSameCurrency"}

Binary(op, self, other) ==
    CASE op = "add" -> add(self, other)
      [] op = "sub" -> sub(self, other)
      [] op = "mod" -> mod(self, other)
      [] op = "eq"  -> eq(self, other)
      [] op = "lt"  -> lt(self, other)
      [] op = "lte" -> lte(self, other)
      [] op = "gt"  -> gt(self, other)
      [] op = "gte" -> gte(self, other)
      [] op = "cmp" -> cmp(self, other)
      [] op = "ratioOf" -> ratioOf(self, other)
      [] op = "hasSameCurrency" -> hasSameCurrency(self, other)

\* a.<op>(other), other being the Money res.r.money just constructed from
\* amount and currency.
ReturnsBinary(op, amount, currency, res) ==
    /\ out' = [NoCall EXCEPT !.op = op, !.self = a, !.other = res.r.money,
                             !.n = amount, !.cur = currency,
                             !.r = Binary(op, a, res.r.money)]
    /\ currencyNumberFormats' = res.cache
    /\ UNCHANGED a

\* a.<op>(new Money(amount, currency)), the operand being of either class.
CallBinary(op, family, amount, currency) ==
    /\ Idle /\ Constructed(a)
    /\ ReturnsBinary(op, amount, currency,
                     MoneyNew(currencyNumberFormats, family, amount, currency,
                              UNDEFINED))

\* a.mul(n, roundingMode) and a.div(n, roundingMode).
CallScalar(op, n, roundingMode) ==
    /\ Idle /\ Constructed(a)
    /\ Returns([NoCall EXCEPT !.op = op, !.self = a, !.n = n,
                              !.rm = roundingMode],
               IF op = "mul"
               THEN mul(currencyNumberFormats, a, n, roundingMode)
               ELSE div(currencyNumberFormats, a, n, roundingMode))

\* The methods without arguments other than abs: a.toNumberUnchecked(),
\* a.toSafeNumberOrNull(), a.toSafeNumber(), a.isSafeNumber(),
\* a.toString(), a.toDecimalString(), a.sign(), a.isZero(),
\* a.isNegative() and a.isPositive().
CallNumber(op) ==
    /\ Idle /\ Constructed(a)
    /\ Returns([NoCall EXCEPT !.op = op, !.self = a],
               CASE op = "toNumberUnchecked" ->
                        [r |-> toNumberUnchecked(a),
                         cache |-> currencyNumberFormats]
                 [] op = "toSafeNumberOrNull" ->
                        toSafeNumberOrNull(currencyNumberFormats, a)
                 [] op = "toSafeNumber" ->
                        toSafeNumber(currencyNumberFormats, a)
                 [] op = "isSafeNumber" ->
                        isSafeNumber(currencyNumberFormats, a)
                 [] op = "toString" ->
                        [r |-> toString(a), cache |-> currencyNumberFormats]
                 [] op = "toDecimalString" ->
                        [r |-> toDecimalString(a),
                         cache |-> currencyNumberFormats]
                 [] op = "sign" ->
                        [r |-> sign(a), cache |-> currencyNumberFormats]
                 [] op = "isZero" ->
                        [r |-> isZero(a), cache |-> currencyNumberFormats]
                 [] op = "isNegative" ->
                        [r |-> isNegative(a), cache |-> currencyNumberFormats]
                 [] op = "isPositive" ->
                        [r |-> isPositive(a), cache |-> currencyNumberFormats])

\* An abs that changes the amount of the Money it is called on.
CallAbsInPlace ==
    /\ Idle /\ Constructed(a)
    /\ out' = [NoCall EXCEPT !.op = "abs", !.self = a, !.r = abs(a)]
    /\ a' = abs(a).money
    /\ UNCHANGED currencyNumberFormats

CallAbs ==
    /\ Idle /\ Constructed(a)
    /\ out' = [NoCall EXCEPT !.op = "abs", !.self = a, !.r = abs(a)]
    /\ UNCHANGED <<a, currencyNumberFormats>>

CallConvertCurrency(currency, ratio) ==
    /\ Idle /\ Constructed(a)
    /\ Returns([NoCall EXCEPT !.op = "convertCurrency", !.self = a,
                              !.n = ratio, !.cur = currency],
               convertCurrency(currencyNumberFormats, a, currency, ratio))

\* The amount of m in minor units of its currency is at most MaxKeep.
Small(m) ==
    NatCmp(Scaled(m.amount, IntlFractionDigits(m.currency)),
           IntToNat(MaxKeep)) <= 0

\* The caller goes on: it keeps the Money the call returned as its new a (a
\* constructed one always, an operation's result when it is small).
Keep ==
    /\ ~Idle
    /\ out.r.kind = "money"
    /\ out.op = "new" \/ Small(out.r.money)
    /\ a' = out.r.money
    /\ out' = NoCall
    /\ UNCHANGED currencyNumberFormats

\* The caller goes on and drops what the call returned or threw.
Drop ==
    /\ ~Idle
    /\ out' = NoCall
    /\ UNCHANGED <<a, currencyNumberFormats>>

Next ==
    \/ \E f \in Families, x \in AmountInputs, c \in CurrencyInputs,
          rm \in RoundingInputs : New(f, x, c, rm)
    \/ New("Money", Num(<<"-", "0">>), Str(EUR), UNDEFINED)
    \/ \E op \in BinaryOps, f \in Families, y \in OperandAmounts,
          c \in OperandCurrencies : CallBinary(op, f, y, c)
    \/ \E op \in {"mul", "div"}, n \in ScalarInputs, rm \in RoundingInputs :
          CallScalar(op, n, rm)
    \/ CallAbs
    \/ \E c \in ConvertInputs, n \in RateInputs : CallConvertCurrency(c, n)
    \/ \E op \in {"sign", "isZero", "isNegative", "isPositive"} : CallNumber(op)
    \/ Keep
    \/ Drop

Spec == Init /\ [][Next]_vars

(***************************************************************************)
(* Construction on its own: the same caller, constructing from the amounts *)
(* and currencies of every type the constructor can be handed, and         *)
(* combining what it constructed with Money of the same code in other      *)
(* cases.                                                                  *)
(***************************************************************************)
TenPointZero == Str(<<"1", "0", ".", "0", "0">>)

CaseInputs ==
    {Str(EUR), Str(<<"e", "u", "r">>), Str(<<"e", "U", "r">>)}

ConstructAmounts ==
    {
      Str(<<"0", ".", "0", "1">>),
      Str(<<"1", "0", ".", "0", "0">>),
      Str(<<"-", ".", "1", "7", "3">>),
      Str(<<"3", ".">>),
      Num(<<"3", ".", "5">>),
      Num(<<"1", "2", "3", "4", "1", "2", "3", "4", "1", "2", "3", "4", "1",
          "2", "3", "4", "0", "0", "0", "0">>),
      Num(<<"1", "e", "+", "2", "1">>),
      Str(<<"1", "e", "3">>),
      Obj("array", <<"1">>),
      Obj("undefined", <<"u", "n", "d", "e", "f", "i", "n", "e", "d">>),
      Obj("null", <<"n", "u", "l", "l">>),
      Obj("object", <<"[", "o", "b", "j", "e", "c", "t", " ", "O", "b", "j",
          "e", "c", "t", "]">>),
      Obj("array", <<>>),
      Obj("boolean", <<"t", "r", "u", "e">>),
      Obj("boolean", <<"f", "a", "l", "s", "e">>),
      Obj("date", <<"T", "h", "u", " ", "J", "a", "n", " ", "0", "1", " ",
          "1", "9", "7", "0", " ", "0", "0", ":", "0", "0", ":", "0", "0",
          " ", "G", "M", "T", "+", "0", "0", "0", "0", " ", "(", "C", "o",
          "o", "r", "d", "i", "n", "a", "t", "e", "d", " ", "U", "n", "i",
          "v", "e", "r", "s", "a", "l", " ", "T", "i", "m", "e", ")">>),
      Str(<<>>),
      Str(<<"0", "x", "f", "f">>),
      Str(<<"a", "s", "d", "f">>),
      Num(<<"I", "n", "f", "i", "n", "i", "t", "y">>),
      Num(<<"-", "I", "n", "f", "i", "n", "i", "t", "y">>),
      Num(<<"N", "a", "N">>) }

ConstructCurrencies ==
    CaseInputs \cup
    { Str(<<"X", "X", "X">>),
      Str(<<>>),
      Str(<<"F", "O", "O", "B", "A", "R">>),
      Str(<<"E", "U", "1">>),
      Num(<<"1", "2", "3">>),
      Obj("undefined", <<"u", "n", "d", "e", "f", "i", "n", "e", "d">>),
      Obj("null", <<"n", "u", "l", "l">>),
      Obj("object", <<"[", "o", "b", "j", "e", "c", "t", " ", "O", "b", "j",
          "e", "c", "t", "]">>),
      Obj("array", <<>>),
      Obj("array", EUR),
      Obj("boolean", <<"t", "r", "u", "e">>),
      Obj("boolean", <<"f", "a", "l", "s", "e">>) }

NextConstruct ==
    \/ \E x \in ConstructAmounts, c \in CaseInputs :
          New("Money", x, c, UNDEFINED)
    \/ \E x \in {TenPointZero, Str(<<"a", "s", "d", "f">>)},
          c \in ConstructCurrencies : New("Money", x, c, UNDEFINED)
    \/ \E op \in BinaryOps, y \in OperandAmounts \cup {TenPointZero},
          c \in CaseInputs : CallBinary(op, "Money", y, c)
    \/ Keep
    \/ Drop

SpecConstruct == Init /\ [][NextConstruct]_vars

(***************************************************************************)
(* Conversion to a Number and rendering: the same caller, constructing     *)
(* Money whose amounts are and are not safe numbers, and asking for the    *)
(* Number and for the locale string under every kind of option.            *)
(***************************************************************************)
NumberAmounts ==
    {
      Str(<<"1", "0", ".", "0", "0">>),
      Str(<<"0", ".", "0", "1">>),
      Num(<<"9", "0", "0", "7", "1", "9", "9", "2", "5", "4", "7", "4", "0",
          "9", "9", "1">>),
      Num(<<"-", "9", "0", "0", "7", "1", "9", "9", "2", "5", "4", "7", "4",
          "0", "9", "9", "1">>),
      Str(<<"1", "2", "3", "4", "1", "2", "3", "4", "1", "2", "3", "4", "1",
          "2", "3", "4", "1", "2", "3", "4", ".", "1", "2">>),
      Str(<<"1", "2", "3", "4", "1", "2", "3", "4", "1", "2", "3", "4", "1",
          "2", "3", "5", ".", "5", "1">>),
      Str(<<"1", "2", "3", "4", "1", "2", "3", "4", "1", "2", "3", "4", "1",
          "2", "3", "4", "0", "0", "0", "0">>),
      Str(<<"9", "9", "9", "9", "9", "9", "9", "9", "9", "9", "9", "9", "9",
          "9", ".", "9", "9">>) }

PrecisionInputs ==
    { Undefined,
      Str(PrecisionSafe),
      Str(PrecisionUnchecked),
      Str(PrecisionShowImprecision),
      Obj("null", <<"n", "u", "l", "l">>),
      Obj("boolean", <<"t", "r", "u", "e">>),
      Obj("object", <<"[", "o", "b", "j", "e", "c", "t", " ", "O", "b", "j",
          "e", "c", "t", "]">>),
      Obj("array", <<>>),
      Obj("array", PrecisionUnchecked),
      Num(<<"1", "2", "3">>),
      Str(<<"S", "A", "F", "E">>),
      Str(<<"f", "o", "o", "b", "a", "r">>) }

\* a.toLocaleString(locale, options).
CallToLocaleString(locale, options) ==
    /\ Idle /\ Constructed(a)
    /\ Returns([NoCall EXCEPT !.op = "toLocaleString", !.self = a,
                              !.locale = locale, !.options = options],
               toLocaleString(currencyNumberFormats, a, locale, options))

NextNumber ==
    \/ \E x \in NumberAmounts : New("Money", x, Str(EUR), UNDEFINED)
    \/ New("MoneyCustomImprecision",
           Str(<<"1", "2", "3", "4", "1", "2", "3", "4", "1", "2", "3",
               "4", "1", "2", "3", "4", "1", "2", "3", "4", ".", "1", "2">>),
           Str(EUR), UNDEFINED)
    \/ New("Money", Str(<<"9", "8", "5", "4", "7", "4", "2", "6", "3", "1", "6",
               "6", "3", "4", "9", "3", "5", "5">>),
           Str(IRR), UNDEFINED)
    \/ New("Money", Str(<<"-", "0", ".", "0", "0", "1">>), Str(EUR), UNDEFINED)
    \/ \E op \in {"toNumberUnchecked", "toSafeNumberOrNull", "toSafeNumber",
                   "isSafeNumber", "toString", "toDecimalString"} :
          CallNumber(op)
    \/ \E ph \in PrecisionInputs, c \in {Undefined, Str(USD)} :
          CallToLocaleString("undefined",
              [NoOptions EXCEPT !.precisionHandling = ph, !.currency = c,
                                !.hasPrecisionHandling = (ph # Undefined)])
    \/ \E st \in {Undefined, Str(StyleCurrency),
                   Str(<<"d", "e", "c", "i", "m", "a", "l">>)},
          c \in {Undefined, Str(EUR), Str(USD), Str(<<"e", "u", "r">>)},
          ph \in {Undefined, Str(PrecisionUnchecked)} :
          CallToLocaleString("en-US",
              [NoOptions EXCEPT !.style = st, !.currency = c,
                                !.precisionHandling = ph,
                                !.hasPrecisionHandling = (ph # Undefined)])
    \/ \E l \in {"undefined", "en-US", "en-UK"},
          rest \in {"none", "useGrouping: false",
                    "minimumFractionDigits: 100"},
          ph \in {Undefined, Str(PrecisionSafe), Str(PrecisionUnchecked),
                  Str(PrecisionShowImprecision)} :
          CallToLocaleString(l,
              [NoOptions EXCEPT !.rest = rest, !.precisionHandling = ph,
                                !.hasPrecisionHandling = (ph # Undefined)])
    \/ \E l \in {"undefined", "en-US"} :
          CallToLocaleString(l, [NoOptions EXCEPT !.hasPrecisionHandling = TRUE])
    \/ Keep
    \/ Drop

SpecNumber == Init /\ [][NextNumber]_vars

(***************************************************************************)
(* The whole public interface on a few values: the constructor, the static *)
(* createUnchecked, and every method, succeeding and failing.              *)
(***************************************************************************)
\* Money.createUnchecked(amount, currency), lines 44-49, called by the user
\* of the class: a static method of the exported class.
CallCreateUnchecked(family, amount, currency) ==
    /\ Idle
    /\ Returns([NoCall EXCEPT !.op = "createUnchecked", !.family = family,
                              !.n = BigVal(amount), !.cur = Str(currency)],
               [r     |-> RetMoney(createUnchecked(family, amount, currency)),
                cache |-> currencyNumberFormats])

NextPublic ==
    \/ \E f \in Families,
          x \in {TenPointZero,
                 Str(<<"1", "2", "3", "4", "1", "2", "3", "4", "1", "2", "3",
                     "4", "1", "2", "3", "4", "1", "2", "3", "4", ".", "1",
                     "2">>),
                 Str(<<"-", "0", ".", "0", "1">>),
                 Str(<<"1", ".", "1", "9", "1">>),
                 Str(<<"a", "s", "d", "f">>)},
          c \in {Str(EUR), Str(<<>>)} : New(f, x, c, UNDEFINED)
    \/ \E f \in Families,
          amount \in {[s |-> 1, c |-> <<1, 0, 0, 5>>, e |-> 0],
                      [s |-> 1, c |-> <<1>>, e |-> 1]},
          currency \in {EUR, <<"n", "o", "p", "e">>} :
          CallCreateUnchecked(f, amount, currency)
    \/ \E op \in BinaryOps, f \in Families, c \in OperandCurrencies :
          CallBinary(op, f, Str(<<"0", ".", "0", "1">>), c)
    \/ \E op \in {"mul", "div"},
          n \in {Num(<<"0">>), Num(<<"3">>),
                 Str(<<"0", ".", "3", "3", "3", "3">>)} :
          CallScalar(op, n, UNDEFINED)
    \/ CallAbs
    \/ \E c \in ConvertInputs : CallConvertCurrency(c, Str(<<"0", ".", "0", "0", "5">>))
    \/ \E op \in {"toNumberUnchecked", "toSafeNumberOrNull", "toSafeNumber",
                   "isSafeNumber", "toString", "toDecimalString", "sign",
                   "isZero", "isNegative", "isPositive"} : CallNumber(op)
    \/ \E ph \in {Undefined, Str(PrecisionUnchecked),
                   Str(<<"f", "o", "o", "b", "a", "r">>)},
          c \in {Undefined, Str(USD)} :
          CallToLocaleString("en-US",
              [NoOptions EXCEPT !.precisionHandling = ph, !.currency = c,
                                !.hasPrecisionHandling = (ph # Undefined)])
    \/ Keep
    \/ Drop

SpecPublic == Init /\ [][NextPublic]_vars

(***************************************************************************)
(* Reference arithmetic for the properties.  A Big x is the rational       *)
(* x.s * Coef(x) / 10^FracDigits(x); the properties below state what a     *)
(* result must be by comparing exact natural numbers, not by redoing the   *)
(* library's computation.                                                  *)
(***************************************************************************)
Pow10(k) == <<1>> \o Zeros(k)

NatLe(x, y) == NatCmp(x, y) <= 0

NatLt(x, y) == NatCmp(x, y) < 0

NatTwice(x) == NatAdd(x, x)

NatIsOdd(n) == n[Len(n)] % 2 = 1

\* The natural number q is num / den (den > 0) rounded to an integer under
\* the rounding mode rm.
IsRounding(num, den, q, rm) ==
    LET qd == NatMul(q, den)
        lo == NatAdd(NatTwice(num), den)
        hi == NatAdd(NatTwice(qd), den)
    IN  CASE rm = RoundDown   -> NatLe(qd, num) /\ NatLt(num, NatAdd(qd, den))
          [] rm = RoundUp     -> NatLe(num, qd) /\ NatLt(qd, NatAdd(num, den))
          [] rm = RoundHalfUp -> NatLe(NatTwice(qd), lo) /\ NatLt(NatTwice(num), hi)
          [] rm = RoundHalfEven ->
                 /\ NatLe(NatTwice(qd), lo)
                 /\ NatLe(NatTwice(num), hi)
                 /\ (NatTwice(qd) = lo \/ NatTwice(num) = hi) => ~NatIsOdd(q)
          [] OTHER -> FALSE

\* The Big r is the rational s * num / den rounded to d decimal places under
\* rm (the sign of a zero r is not looked at).
RoundedFrom(r, s, num, den, d, rm) ==
    /\ FracDigits(r) <= d
    /\ IsRounding(NatShift(num, d), den, Scaled(r, d), rm)
    /\ BigIsZero(r) \/ r.s = s

ProductNum(x, y) == NatMul(Coef(x), Coef(y))

ProductDen(x, y) == Pow10(FracDigits(x) + FracDigits(y))

QuotientNum(x, y) == NatMul(Coef(x), Pow10(FracDigits(y)))

QuotientDen(x, y) == NatMul(Coef(y), Pow10(FracDigits(x)))

\* The positive and the negative part of x, in units of 10^-d.
PosPart(x, d) == IF x.s = 1 THEN Scaled(x, d) ELSE <<0>>

NegPart(x, d) == IF x.s = 1 THEN <<0>> ELSE Scaled(x, d)

\* -1, 0 or 1 as x < y, x = y, x > y, as rationals.
ValueCmp(x, y) ==
    LET d == Max(FracDigits(x), FracDigits(y))
    IN  NatCmp(NatAdd(PosPart(x, d), NegPart(y, d)),
               NatAdd(PosPart(y, d), NegPart(x, d)))

\* x + y = z, as rationals.
IsSum(x, y, z) ==
    LET d == Max(Max(FracDigits(x), FracDigits(y)), FracDigits(z))
    IN  NatAdd(NatAdd(PosPart(x, d), PosPart(y, d)), NegPart(z, d))
          = NatAdd(NatAdd(NegPart(x, d), NegPart(y, d)), PosPart(z, d))

\* The rounding mode a call rounds under: the one passed, or the default
\* of the family.
EffectiveRM(family, rm) ==
    IF rm = UNDEFINED THEN defaultRoundingMode(family) ELSE rm

FractionWithinCurrency(m) ==
    FracDigits(m.amount) <= IntlFractionDigits(m.currency)

Dec(s, c, e) == [s |-> s, c |-> c, e |-> e]

(***************************************************************************)
(* Properties of the operations.                                           *)
(***************************************************************************)
SameCurrencyCall == out.self.currency = out.other.currency

\* C1: after construction and after any sequence of add, sub, mul, div, mod,
\* abs and convertCurrency, every Money (the one the caller holds, the one
\* passed as operand, the one a call returns) has an amount with no more
\* fractional digits than the canonical count of its own currency.
C1_FractionDigitsWithinCurrency ==
    /\ Constructed(a) => FractionWithinCurrency(a)
    /\ Constructed(out.self) => FractionWithinCurrency(out.self)
    /\ Constructed(out.other) => FractionWithinCurrency(out.other)
    /\ out.r.kind = "money" => FractionWithinCurrency(out.r.money)

\* C1 witness: 0.03 EUR, itself the kept result of an earlier operation, is
\* multiplied by 0.3333 rounding up, and the result is 0.01.
C1_Witness ==
    /\ out.op = "mul"
    /\ out.self.amount = Dec(1, <<3>>, -2)
    /\ out.self.currency = EUR
    /\ out.n = Str(<<"0", ".", "3", "3", "3", "3">>)
    /\ out.rm = RoundUp
    /\ out.r.kind = "money"
    /\ out.r.money.amount = Dec(1, <<1>>, -2)

MismatchOps ==
    {"add", "sub", "mod", "lt", "lte", "gt", "gte", "cmp", "ratioOf"}

RaisedMismatch == out.r.kind = "error" /\ out.r.err = "CurrencyMismatch"

\* C2: each of add, sub, mod, lt, lte, gt, gte, cmp and ratioOf raises
\* CurrencyMismatch, returning nothing, exactly when a.hasSameCurrency(b)
\* is false; mul and div never raise CurrencyMismatch.
C2_MismatchIffDifferentCurrency ==
    /\ out.op \in MismatchOps =>
          (RaisedMismatch <=> ~hasSameCurrency(out.self, out.other).bool)
    /\ out.op \in {"mul", "div"} => ~RaisedMismatch

\* C2 witness: mod of an EUR amount by a zero IRR amount raises
\* CurrencyMismatch (not DivisionByZero).
C2_Witness ==
    /\ out.op = "mod"
    /\ out.self.currency = EUR
    /\ out.other.currency = IRR
    /\ BigIsZero(out.other.amount)
    /\ RaisedMismatch

\* C3: eq never raises and returns true exactly when the currencies are
\* identical and the amounts numerically equal; a.eq(a) is true and a.eq(b)
\* equals b.eq(a).
C3_EqIsCurrencyAndAmountEquality ==
    out.op = "eq" =>
        /\ out.r.kind = "bool"
        /\ out.r.bool <=> /\ out.self.currency = out.other.currency
                          /\ ValueCmp(out.self.amount, out.other.amount) = 0
        /\ eq(out.self, out.self) = RetBool(TRUE)
        /\ eq(out.other, out.self) = out.r

\* C3 witness: eq of two numerically equal amounts of different currencies
\* returns false.
C3_Witness ==
    /\ out.op = "eq"
    /\ out.self.currency # out.other.currency
    /\ ValueCmp(out.self.amount, out.other.amount) = 0
    /\ out.r = RetBool(FALSE)

\* C4: for same-currency a and b, cmp is -1, 0 or 1 by the numeric order of
\* the amounts, lt holds iff that is -1, lte iff -1 or 0, gt iff 1, gte iff
\* 0 or 1.
C4_ComparisonsFollowNumericOrder ==
    LET c == ValueCmp(out.self.amount, out.other.amount)
    IN  SameCurrencyCall =>
        /\ out.op = "cmp" => out.r = RetNum(c)
        /\ out.op = "lt"  => out.r = RetBool(c = -1)
        /\ out.op = "lte" => out.r = RetBool(c \in {-1, 0})
        /\ out.op = "gt"  => out.r = RetBool(c = 1)
        /\ out.op = "gte" => out.r = RetBool(c \in {0, 1})
        /\ out.op \in {"cmp", "lt", "lte", "gt", "gte"} =>
              /\ lt(out.self, out.other).bool
                    <=> cmp(out.self, out.other).num = -1
              /\ lte(out.self, out.other).bool
                    <=> cmp(out.self, out.other).num \in {-1, 0}
              /\ gt(out.self, out.other).bool
                    <=> cmp(out.self, out.other).num = 1
              /\ gte(out.self, out.other).bool
                    <=> cmp(out.self, out.other).num \in {0, 1}

\* C4 witness: lte of a negative amount and a larger positive amount of the
\* same currency returns true.
C4_Witness ==
    /\ out.op = "lte"
    /\ SameCurrencyCall
    /\ out.self.amount.s = -1 /\ ~BigIsZero(out.self.amount)
    /\ out.other.amount.s = 1 /\ ~BigIsZero(out.other.amount)
    /\ out.r = RetBool(TRUE)

\* C5: for same-currency a and b, a.add(b).sub(b).eq(a) is true; add and sub
\* return the exact sum and difference, and a.add(b) and b.add(a) have the
\* same amount.
C5_AddSubExactInverse ==
    SameCurrencyCall =>
        /\ out.op = "add" =>
              /\ out.r.kind = "money"
              /\ IsSum(out.self.amount, out.other.amount, out.r.money.amount)
              /\ sub(out.r.money, out.other).kind = "money"
              /\ eq(sub(out.r.money, out.other).money, out.self)
                    = RetBool(TRUE)
              /\ ValueCmp(add(out.other, out.self).money.amount,
                          out.r.money.amount) = 0
        /\ out.op = "sub" =>
              /\ out.r.kind = "money"
              /\ IsSum(out.r.money.amount, out.other.amount, out.self.amount)

\* C5 witness: a negative amount plus a non-zero positive amount of the same
\* currency, with a non-zero sum.
C5_Witness ==
    /\ out.op = "add"
    /\ SameCurrencyCall
    /\ out.self.amount.s = -1 /\ ~BigIsZero(out.self.amount)
    /\ out.other.amount.s = 1 /\ ~BigIsZero(out.other.amount)
    /\ out.r.kind = "money"
    /\ ~BigIsZero(out.r.money.amount)

ResultSign(x, y) == IF x.s = y.s THEN 1 ELSE -1

HundredEUR ==
    [amount |-> Dec(1, <<1>>, 2), currency |-> EUR, family |-> "Money"]

\* C6: a.mul(n, r) has a's currency and the exact product a.amount * n
\* rounded to the currency's canonical fractional digits under r, or under
\* the family's default rounding mode when r is omitted; 100.00 EUR times
\* 0.3333 under round-half-up is 33.33.
C6_MulRoundsExactProduct ==
    out.op = "mul" =>
        LET n == BigNew(out.n)
        IN  /\ out.r.kind = "money"
            /\ out.r.money.currency = out.self.currency
            /\ RoundedFrom(out.r.money.amount,
                           ResultSign(out.self.amount, n),
                           ProductNum(out.self.amount, n),
                           ProductDen(out.self.amount, n),
                           IntlFractionDigits(out.self.currency),
                           EffectiveRM(out.self.family, out.rm))
            /\ ( /\ out.self = HundredEUR
                 /\ out.n = Str(<<"0", ".", "3", "3", "3", "3">>)
                 /\ out.rm \in {UNDEFINED, RoundHalfUp} )
                  => out.r.money.amount = Dec(1, <<3, 3, 3, 3>>, 1)

\* C6 witness: 0.01 EUR of the family whose default is round-up, times
\* 0.3333 with no rounding mode passed, is 0.01 EUR (the product 0.003333
\* rounded up).
C6_Witness ==
    /\ out.op = "mul"
    /\ out.self.family = "MoneyUp"
    /\ out.self.currency = EUR
    /\ out.self.amount = Dec(1, <<1>>, -2)
    /\ out.n = Str(<<"0", ".", "3", "3", "3", "3">>)
    /\ out.rm = UNDEFINED
    /\ out.r.kind = "money"
    /\ out.r.money.amount = Dec(1, <<1>>, -2)
    /\ out.r.money.currency = EUR

\* C7: for a non-zero scalar n, a.div(n, r) has the exact quotient
\* a.amount / n rounded once to the currency's canonical fractional digits
\* under r (or the family default when r is omitted).
C7_DivRoundsExactQuotientOnce ==
    (out.op = "div" /\ ~BigIsZero(BigNew(out.n))) =>
        LET n == BigNew(out.n)
        IN  /\ out.r.kind = "money"
            /\ RoundedFrom(out.r.money.amount,
                           ResultSign(out.self.amount, n),
                           QuotientNum(out.self.amount, n),
                           QuotientDen(out.self.amount, n),
                           IntlFractionDigits(out.self.currency),
                           EffectiveRM(out.self.family, out.rm))

\* C7 witness: 0.01 EUR divided by 1e+22 rounding up returns 0 EUR; the
\* exact quotient 1e-24 rounded up to two places is 0.01.
C7_Witness ==
    /\ out.op = "div"
    /\ out.self.amount = Dec(1, <<1>>, -2)
    /\ out.self.currency = EUR
    /\ out.self.family = "Money"
    /\ out.n = Num(<<"1", "e", "+", "2", "2">>)
    /\ out.rm = RoundUp
    /\ out.r.kind = "money"
    /\ BigIsZero(out.r.money.amount)

RaisedDivisionByZero == out.r = Throw("DivisionByZero")

\* C8: div by a zero scalar, and mod and ratioOf by a same-currency Money
\* whose amount is zero, each raise DivisionByZero and return nothing, for
\* every a, a zero a included.
C8_DivisionByZeroRaises ==
    /\ (out.op = "div" /\ BigIsZero(BigNew(out.n))) => RaisedDivisionByZero
    /\ ( /\ out.op \in {"mod", "ratioOf"}
         /\ SameCurrencyCall
         /\ BigIsZero(out.other.amount) ) => RaisedDivisionByZero

\* C8 witness: ratioOf of a zero amount and a zero amount of the same
\* currency raises DivisionByZero.
C8_Witness ==
    /\ out.op = "ratioOf"
    /\ SameCurrencyCall
    /\ BigIsZero(out.self.amount)
    /\ BigIsZero(out.other.amount)
    /\ RaisedDivisionByZero

RatioCall ==
    out.op = "ratioOf" /\ SameCurrencyCall /\ ~BigIsZero(out.other.amount)

\* C9, as the code has it: for same-currency a and b with b non-zero,
\* a.ratioOf(b) returns, as a bare decimal, a.amount / b.amount rounded to
\* the DP (20) decimal places of the decimal engine of a's family under that
\* engine's rounding mode.
C9_RatioRoundedToEngineDP ==
    RatioCall =>
        /\ out.r.kind = "big"
        /\ RoundedFrom(out.r.big,
                       ResultSign(out.self.amount, out.other.amount),
                       QuotientNum(out.self.amount, out.other.amount),
                       QuotientDen(out.self.amount, out.other.amount),
                       BigDP(out.self.family),
                       BigRM(out.self.family))

\* C9 as stated: the ratio returned is exact, with no rounding or truncation
\* of the quotient: ratio * b.amount = a.amount.
C9_RatioExact ==
    RatioCall =>
        /\ out.r.kind = "big"
        /\ NatMul(ProductNum(out.r.big, out.other.amount),
                  Pow10(FracDigits(out.self.amount)))
             = NatMul(Coef(out.self.amount),
                      ProductDen(out.r.big, out.other.amount))
        /\ BigIsZero(out.r.big)
             \/ out.r.big.s = ResultSign(out.self.amount, out.other.amount)

\* C9 witness: 100 EUR of the round-up family over 7 EUR is
\* 14.28571428571428571429, twenty places, the last one rounded up.
C9_Witness ==
    /\ out.op = "ratioOf"
    /\ out.self = [HundredEUR EXCEPT !.family = "MoneyUp"]
    /\ out.other.amount = Dec(1, <<7>>, 0)
    /\ out.r.kind = "big"
    /\ out.r.big = Dec(1, <<1, 4, 2, 8, 5, 7, 1, 4, 2, 8, 5, 7, 1, 4, 2, 8,
                            5, 7, 1, 4, 2, 9>>, 1)

ConvertCall == out.op = "convertCurrency" /\ IntlWellFormed(out.cur.v)

\* C10: for a valid currency code c, a.convertCurrency(c, rate) returns a
\* Money of a's family whose currency is c normalized and whose amount is
\* the exact product a.amount * rate rounded to c's canonical fractional
\* digits (not a's) as the constructor rounds, the constructor having
\* looked c up; 23405160032451 at rate 42105 gives 985474263166349355 IRR.
C10_ConvertCurrencyConstructs ==
    ConvertCall =>
        LET rate == BigNew(out.n)
            c    == ToUpperCase(out.cur.v)
        IN  /\ out.r.kind = "money"
            /\ out.r.money.currency = c
            /\ out.r.money.family = out.self.family
            /\ RoundedFrom(out.r.money.amount,
                           ResultSign(out.self.amount, rate),
                           ProductNum(out.self.amount, rate),
                           ProductDen(out.self.amount, rate),
                           IntlFractionDigits(c),
                           defaultRoundingMode(out.self.family))
            /\ out.cur \in DOMAIN currencyNumberFormats
            /\ ( /\ out.self.amount
                      = Dec(1, <<2, 3, 4, 0, 5, 1, 6, 0, 0, 3, 2, 4, 5, 1>>, 13)
                 /\ out.cur = Str(IRR)
                 /\ out.n = Str(<<"4", "2", "1", "0", "5">>) )
                  => out.r.money.amount
                        = Dec(1, <<9, 8, 5, 4, 7, 4, 2, 6, 3, 1, 6, 6, 3, 4,
                                   9, 3, 5, 5>>, 17)

\* C10 witness: 100 IRR converted at rate 0.005 to the code "eur" is
\* 0.5 EUR, two places in a currency whose source has none.
C10_Witness ==
    /\ out.op = "convertCurrency"
    /\ out.self.currency = IRR
    /\ out.self.amount = Dec(1, <<1>>, 2)
    /\ out.cur = Str(<<"e", "u", "r">>)
    /\ out.n = Str(<<"0", ".", "0", "0", "5">>)
    /\ out.r.kind = "money"
    /\ out.r.money.currency = EUR
    /\ out.r.money.amount = Dec(1, <<5>>, -1)

ConstructedCall == out.op = "new" /\ out.r.kind = "money"

MinusPoint173 == Str(<<"-", ".", "1", "7", "3">>)

\* C11: construction rounds the parsed signed amount to the currency's
\* canonical fractional digits under the rounding mode supplied, or under
\* the family's default mode when none is supplied (round-down toward zero,
\* round-up away from zero, half-up and half-even on ties); -0.173 EUR
\* under the default half-up is -0.17 and under round-up is -0.18.
C11_ConstructionRoundsParsedAmount ==
    ConstructedCall =>
        LET n == BigNew(out.n)
        IN  /\ RoundedFrom(out.r.money.amount, n.s, Coef(n),
                           Pow10(FracDigits(n)),
                           IntlFractionDigits(out.r.money.currency),
                           EffectiveRM(out.family, out.rm))
            /\ ( /\ out.n = MinusPoint173
                 /\ out.r.money.currency = EUR
                 /\ EffectiveRM(out.family, out.rm) = RoundHalfUp )
                  => out.r.money.amount = Dec(-1, <<1, 7>>, -1)
            /\ ( /\ out.n = MinusPoint173
                 /\ out.r.money.currency = EUR
                 /\ EffectiveRM(out.family, out.rm) = RoundUp )
                  => out.r.money.amount = Dec(-1, <<1, 8>>, -1)

\* C11 witness: new MoneyUp('-0.005', 'EUR', RoundingMode.halfEven), of
\* the family whose default is round-up: the tie goes to the even
\* neighbour, and the amount is (negative) zero.
C11_Witness ==
    /\ ConstructedCall
    /\ out.family = "MoneyUp"
    /\ out.n = Str(<<"-", "0", ".", "0", "0", "5">>)
    /\ out.cur = Str(EUR)
    /\ out.rm = RoundHalfEven
    /\ out.r.money.amount = Dec(-1, <<0>>, 0)

CaseVariants == {EUR, <<"e", "u", "r">>, <<"e", "U", "r">>}

\* C12: currency codes are matched whatever their case and stored in upper
\* case: Money(x, 'eur'), Money(x, 'eUr') and Money(x, 'EUR') have the
\* currency 'EUR' and the same amount, are eq to each other, and no
\* currency-checked operation on two of them raises CurrencyMismatch.
C12_CurrencyCaseInsensitive ==
    /\ (ConstructedCall /\ out.cur.v \in CaseVariants) =>
          /\ out.r.money.currency = EUR
          /\ \A v \in CaseVariants :
                out.r = MoneyNew(currencyNumberFormats, out.family, out.n,
                                 Str(v), out.rm).r
    /\ (out.op \in BinaryOps /\ out.self.currency = EUR
          /\ out.cur.v \in CaseVariants) =>
          /\ out.other.currency = EUR
          /\ ~RaisedMismatch
          /\ (out.op = "eq" /\ BigNew(out.n) = out.self.amount)
                => (out.r.kind = "bool" /\ out.r.bool)
          /\ out.op = "hasSameCurrency" => out.r.bool

\* C12 witness: a Money constructed from '10.00' and 'eUr' is compared by eq
\* with one constructed from '10.00' and 'eur', and the answer is true.
C12_Witness ==
    /\ out.op = "eq"
    /\ out.self.amount = Dec(1, <<1>>, 1)
    /\ out.self.currency = EUR
    /\ Str(<<"e", "U", "r">>) \in DOMAIN currencyNumberFormats
    /\ out.n = Str(<<"1", "0", ".", "0", "0">>)
    /\ out.cur = Str(<<"e", "u", "r">>)
    /\ out.r.kind = "bool" /\ out.r.bool

\* The currency argument of the call is one the constructor accepts.
CurrencyAccepted == out.cur.t # "undefined" /\ IntlWellFormed(out.cur.v)

RaisedInvalidAmount == out.r.kind = "error" /\ out.r.err = "InvalidAmount"

\* w is digits with at most one decimal point among them, at least one
\* digit in all.
IsUnsignedDecimal(w) ==
    /\ \A i \in 1..Len(w) : IsDigit(w[i]) \/ w[i] = "."
    /\ Cardinality({i \in 1..Len(w) : w[i] = "."}) <= 1
    /\ \E i \in 1..Len(w) : IsDigit(w[i])

\* w is a plain decimal literal: an unsigned decimal, or one after a minus
\* sign.
IsPlainDecimal(w) ==
    \/ IsUnsignedDecimal(w)
    \/ Len(w) > 1 /\ w[1] = "-" /\ IsUnsignedDecimal(Tail(w))

\* w is a decimal literal that may end in an exponent part: e or E, an
\* optional sign, and at least one digit.
IsDecimalOrExponential(w) ==
    \/ IsPlainDecimal(w)
    \/ \E k \in 2..(Len(w) - 1) :
          /\ w[k] \in {"e", "E"}
          /\ IsPlainDecimal(SubSeq(w, 1, k - 1))
          /\ \E j \in {k + 1, k + 2} :
                /\ j <= Len(w)
                /\ j = k + 2 => w[k + 1] \in {"+", "-"}
                /\ \A i \in j..Len(w) : IsDigit(w[i])

NonFinite ==
    { Num(<<"I", "n", "f", "i", "n", "i", "t", "y">>),
      Num(<<"-", "I", "n", "f", "i", "n", "i", "t", "y">>),
      Num(<<"N", "a", "N">>) }

\* The amounts that are missing, non-finite, of a type that is neither
\* number nor string, or a string that is not a plain decimal literal.
MissingOrMalformed(n) ==
    \/ n.t \in {"undefined", "null", "boolean", "object", "array", "date"}
    \/ n \in NonFinite
    \/ n.t = "string" /\ ~IsPlainDecimal(n.v)

\* C13 as stated: with an acceptable currency, construction fails with
\* InvalidAmount for every amount that is missing, non-finite, of a
\* non-numeric non-string type, or a string that is not a plain decimal
\* literal (exponential notation included), and succeeds for every finite
\* number and every plain decimal literal string.
C13_InvalidAmountAsStated ==
    (out.op = "new" /\ CurrencyAccepted) =>
        /\ MissingOrMalformed(out.n) => RaisedInvalidAmount
        /\ ~MissingOrMalformed(out.n) => out.r.kind = "money"

\* C13: with an acceptable currency, construction fails with InvalidAmount
\* and produces no instance exactly when the amount's conversion to a
\* string is not a decimal literal with an optional exponent part, and
\* succeeds otherwise.  It fails for undefined, null, the infinities and
\* NaN, booleans, objects, dates, the empty array and empty, hexadecimal or
\* alphabetic strings; it succeeds for every finite number and every plain
\* decimal literal string, and also for a string in exponential notation
\* and for an array whose conversion to a string is such a literal.
C13_InvalidAmountByStringConversion ==
    (out.op = "new" /\ CurrencyAccepted) =>
        /\ RaisedInvalidAmount <=> ~IsDecimalOrExponential(out.n.v)
        /\ ~RaisedInvalidAmount => out.r.kind = "money"
        /\ out.n.v = <<>> => RaisedInvalidAmount
        /\ (out.n.t \in {"undefined", "null", "boolean", "object", "date"}
              \/ out.n \in NonFinite) => RaisedInvalidAmount
        /\ (out.n.t = "number" /\ out.n \notin NonFinite)
              => out.r.kind = "money"
        /\ (out.n.t = "string" /\ IsPlainDecimal(out.n.v))
              => out.r.kind = "money"

\* C13 witness: new Money('1e3', 'EUR') returns 1000.00 EUR.
C13_Witness ==
    /\ ConstructedCall
    /\ out.n = Str(<<"1", "e", "3">>)
    /\ out.r.money.currency = EUR
    /\ out.r.money.amount = Dec(1, <<1>>, 3)

RaisedInvalidCurrency == out.r.kind = "error" /\ out.r.err = "InvalidCurrency"

Letters ==
    {LowerChars[i] : i \in 1..26} \cup {UpperChars[i] : i \in 1..26}

\* w is a well-formed alphabetic code: three letters.
IsAlphabeticCode(w) == Len(w) = 3 /\ \A i \in 1..3 : w[i] \in Letters

\* C14 as stated: construction fails with InvalidCurrency and produces no
\* instance for every currency argument that is not a string, is empty, or
\* is not a well-formed alphabetic code, and succeeds (the amount being
\* valid) for every well-formed alphabetic code, 'XXX' included.
C14_InvalidCurrencyAsStated ==
    out.op = "new" =>
        /\ (out.cur.t # "string" \/ ~IsAlphabeticCode(out.cur.v))
              => RaisedInvalidCurrency
        /\ (out.cur.t = "string" /\ IsAlphabeticCode(out.cur.v))
              => /\ ~RaisedInvalidCurrency
                 /\ out.n = TenPointZero => out.r.kind = "money"

\* C14, what does hold: a string currency is rejected with
\* InvalidCurrency, whatever the amount, exactly when it is not a
\* well-formed alphabetic code; every non-string but one whose conversion
\* to a string is such a code is rejected too.
C14_StringCurrencies ==
    out.op = "new" =>
        /\ out.cur.t = "string" =>
              (RaisedInvalidCurrency <=> ~IsAlphabeticCode(out.cur.v))
        /\ ~IsAlphabeticCode(out.cur.v) => RaisedInvalidCurrency
        /\ (~RaisedInvalidCurrency /\ out.n = TenPointZero)
              => (out.r.kind = "money"
                    /\ out.r.money.currency = ToUpperCase(out.cur.v))

\* C14 witness: new Money('10.00', ['EUR']), the currency an array, returns
\* 10.00 EUR.
C14_Witness ==
    /\ ConstructedCall
    /\ out.n = TenPointZero
    /\ out.cur = Obj("array", EUR)
    /\ out.r.money = [amount |-> Dec(1, <<1>>, 1), currency |-> EUR,
                      family |-> "Money"]

RaisedUnsafePrecision ==
    out.r.kind = "error" /\ out.r.err = "UnsafePrecision"

\* What a.toSafeNumberOrNull() returns for the Money of the call.
SafeNumberOrNullOfSelf == toSafeNumberOrNull(currencyNumberFormats, out.self).r

\* C15: a.toSafeNumber() raises UnsafePrecision exactly when
\* a.toSafeNumberOrNull() returns null; a.isSafeNumber() is true exactly
\* when it returns a number; and when it does, toSafeNumber() returns that
\* same number, which is a.toNumberUnchecked().
C15_SafeNumberFamilyAgrees ==
    /\ out.op = "toSafeNumber" =>
          /\ RaisedUnsafePrecision <=> SafeNumberOrNullOfSelf.kind = "null"
          /\ SafeNumberOrNullOfSelf.kind = "number" =>
                /\ out.r = SafeNumberOrNullOfSelf
                /\ out.r = toNumberUnchecked(out.self)
    /\ out.op = "isSafeNumber" =>
          /\ out.r.kind = "bool"
          /\ out.r.bool <=> SafeNumberOrNullOfSelf.kind = "number"
    /\ out.op = "toSafeNumberOrNull" =>
          /\ out.r.kind \in {"number", "null"}
          /\ out.r.kind = "number" => out.r = toNumberUnchecked(out.self)

\* C15 witness: toSafeNumber() on 12341234123412341234.12 EUR raises
\* UnsafePrecision.
C15_Witness ==
    /\ out.op = "toSafeNumber"
    /\ out.self.currency = EUR
    /\ out.self.amount
          = Dec(1, <<1, 2, 3, 4, 1, 2, 3, 4, 1, 2, 3, 4, 1, 2, 3, 4, 1, 2, 3,
                     4, 1, 2>>, 19)
    /\ RaisedUnsafePrecision

\* The amounts of safeNumbers and unsafeNumbers (test.js, lines 11-20) and
\* of the README, as the constructor stores them.
UnsafeTwentyDigits ==
    Dec(1, <<1, 2, 3, 4, 1, 2, 3, 4, 1, 2, 3, 4, 1, 2, 3, 4, 1, 2, 3, 4, 1, 2>>,
        19)

UnsafeSixteenDigits ==
    Dec(1, <<1, 2, 3, 4, 1, 2, 3, 4, 1, 2, 3, 4, 1, 2, 3, 5, 5, 1>>, 15)

UnsafeRial ==
    Dec(1, <<9, 8, 5, 4, 7, 4, 2, 6, 3, 1, 6, 6, 3, 4, 9, 3, 5, 5>>, 17)

MaxSafeInteger ==
    Dec(1, <<9, 0, 0, 7, 1, 9, 9, 2, 5, 4, 7, 4, 0, 9, 9, 1>>, 15)

\* The Number a call returned, written back as a decimal (String(number),
\* which is what new Big(number) reads).
NumberReturned == BigOfNumber(out.r.number)

\* C16: a.toSafeNumberOrNull() returns a number only if that number,
\* converted back to a decimal (a decimal that denotes the very same
\* Number) and rounded to the currency's fraction digits, is exactly
\* a.amount, and returns null otherwise; it returns null for
\* 12341234123412341234.12 EUR, 1234123412341235.51 EUR and
\* 985474263166349355 IRR, and a number for 10.00 EUR and for plus and
\* minus 9007199254740991 EUR.
C16_SafeNumberSurvivesRoundTrip ==
    out.op = "toSafeNumberOrNull" =>
        /\ out.r.kind \in {"number", "null"}
        /\ out.r.kind = "number" =>
              /\ parseFloat(toFixed(NumberReturned)) = out.r.number
              /\ RoundedFrom(out.self.amount, NumberReturned.s,
                             Coef(NumberReturned),
                             Pow10(FracDigits(NumberReturned)),
                             IntlFractionDigits(out.self.currency),
                             BigRM(out.self.family))
        /\ out.r.kind = "null" =>
              LET back == BigOfNumber(parseFloat(toFixed(out.self.amount)))
              IN  ~RoundedFrom(out.self.amount, back.s, Coef(back),
                               Pow10(FracDigits(back)),
                               IntlFractionDigits(out.self.currency),
                               BigRM(out.self.family))
        /\ out.self.amount \in {UnsafeTwentyDigits, UnsafeSixteenDigits,
                                 UnsafeRial}
              => out.r.kind = "null"
        /\ out.self.amount \in {Dec(1, <<1>>, 1), MaxSafeInteger,
                                 [MaxSafeInteger EXCEPT !.s = -1]}
              => out.r.kind = "number"

\* C16 witness: toSafeNumberOrNull() on 1234123412341235.51 EUR, whose
\* nearest Number is 1234123412341235.5, returns null.
C16_Witness ==
    /\ out.op = "toSafeNumberOrNull"
    /\ out.self.currency = EUR
    /\ out.self.amount = UnsafeSixteenDigits
    /\ toNumberUnchecked(out.self).number
          = parseFloat(<<"1", "2", "3", "4", "1", "2", "3", "4", "1", "2", "3",
                         "4", "1", "2", "3", "5", ".", "5">>)
    /\ out.r.kind = "null"

\* The call is a.toLocaleString(locale, options) and its options do not
\* override the currency of a.
LocaleStringCall ==
    /\ out.op = "toLocaleString"
    /\ ~CurrencyOverridden(out.self, AssignOptions(out.self, out.options))

RenderedUnchecked ==
    Rendered(toNumberUnchecked(out.self).number, out.locale,
             FormatOptions(out.self, out.options))

\* C18: with 'unchecked', a.toLocaleString(locale, options) is the
\* rendering of a.toNumberUnchecked(), not marked; with 'show_imprecision'
\* it is formatImprecision of that rendering exactly when a is not a safe
\* number and the rendering itself when a is one; and for a safe number
\* the three precision handlings return the same string, the rendering of
\* that number, in which the precision handling has no part.
C18_UncheckedAndShowImprecision ==
    LocaleStringCall =>
        LET handling == out.options.precisionHandling
            safe     == SafeNumberOrNullOfSelf
            rendered == RenderedUnchecked
        IN  /\ handling = Str(PrecisionUnchecked) =>
                  /\ out.r = rendered
                  /\ out.r.text.mark = <<"", "">>
            /\ (handling = Str(PrecisionShowImprecision) /\ safe.kind = "null") =>
                  /\ out.r.text.invoked
                  /\ rendered.kind = "string" =>
                        /\ out.r = formatImprecision(out.self.family, rendered,
                                        out.locale,
                                        FormatOptions(out.self, out.options))
                        /\ out.r.text.mark # <<"", "">>
                        /\ out.self.family = "Money"
                              => out.r.text.mark = <<"~\\u00A0", "">>
                  /\ rendered.kind = "error" => out.r = rendered
            /\ (handling = Str(PrecisionShowImprecision) /\ safe.kind = "number")
                  => out.r = rendered
            /\ ( /\ handling \in {Str(PrecisionSafe), Str(PrecisionUnchecked),
                                   Str(PrecisionShowImprecision)}
                 /\ safe.kind = "number" ) =>
                  /\ out.r.text.number = safe.number
                  /\ out.r = rendered

\* C18 witness: 12341234123412341234.12 EUR of the class with its own
\* formatImprecision, under 'show_imprecision' and the locale en-US, is
\* the rendering of 12341234123412340000 put between 'around ' and
\* ' or so'.
C18_Witness ==
    /\ out.op = "toLocaleString"
    /\ out.self.family = "MoneyCustomImprecision"
    /\ out.self.amount = UnsafeTwentyDigits
    /\ out.locale = "en-US"
    /\ out.options.precisionHandling = Str(PrecisionShowImprecision)
    /\ out.r.kind = "string"
    /\ BigOfNumber(out.r.text.number)
          = Dec(1, <<1, 2, 3, 4, 1, 2, 3, 4, 1, 2, 3, 4, 1, 2, 3, 4>>, 19)
    /\ out.r.text.mark = <<"around ", " or so">>

RaisedCurrencyOverrideNotAllowed ==
    out.r.kind = "error" /\ out.r.err = "CurrencyOverrideNotAllowed"

\* The options of the call name a currency that is not the currency of a.
NamesOtherCurrency ==
    out.options.currency \notin {Undefined, Str(out.self.currency)}

\* The style the renderer is to use: the style option, 'currency' when
\* there is none.
StyleIsCurrency == out.options.style \in {Undefined, Str(StyleCurrency)}

\* C19 as stated: in every a.toLocaleString(locale, options), whatever the
\* style, the currency handed to the locale renderer is a.currency, and
\* options that name another currency raise CurrencyOverrideNotAllowed
\* without anything being rendered.
C19_CurrencyNeverOverridden ==
    out.op = "toLocaleString" =>
        /\ out.r.text.invoked
              => out.r.text.options.currency = Str(out.self.currency)
        /\ NamesOtherCurrency
              => RaisedCurrencyOverrideNotAllowed /\ ~out.r.text.invoked

\* C19, amended: in every a.toLocaleString(locale, options) whose style is
\* 'currency' (given or by default) the currency handed to the locale
\* renderer is a.currency, and options that name another currency raise
\* CurrencyOverrideNotAllowed without anything being rendered; under any
\* other style the currency option is not looked at, and the renderer is
\* handed it as it was given.
C19_CurrencyNotOverriddenInCurrencyStyle ==
    out.op = "toLocaleString" =>
        /\ StyleIsCurrency =>
              /\ out.r.text.invoked
                    => out.r.text.options.currency = Str(out.self.currency)
              /\ NamesOtherCurrency
                    => RaisedCurrencyOverrideNotAllowed /\ ~out.r.text.invoked
        /\ ~StyleIsCurrency =>
              /\ ~RaisedCurrencyOverrideNotAllowed
              /\ (out.r.text.invoked /\ NamesOtherCurrency)
                    => out.r.text.options.currency = out.options.currency
        /\ ~NamesOtherCurrency => ~RaisedCurrencyOverrideNotAllowed

\* C19 witness: 10.00 EUR, toLocaleString('en-US', {currency: 'USD'})
\* raises CurrencyOverrideNotAllowed and renders nothing.
C19_Witness ==
    /\ out.op = "toLocaleString"
    /\ out.self.amount = Dec(1, <<1>>, 1)
    /\ out.self.currency = EUR
    /\ out.options.style = Undefined
    /\ out.options.currency = Str(USD)
    /\ RaisedCurrencyOverrideNotAllowed
    /\ ~out.r.text.invoked

RaisedInvalidOption == out.r.kind = "error" /\ out.r.err = "InvalidOption"

\* C20 as stated: a.toLocaleString(locale, options) raises InvalidOption,
\* and does not invoke the locale renderer, whenever options has a
\* precisionHandling that is not one of the strings 'safe', 'unchecked' and
\* 'show_imprecision', whether a is a safe number or not.
C20_InvalidOptionForEveryOtherValue ==
    ( /\ LocaleStringCall
      /\ out.options.precisionHandling # Undefined
      /\ out.options.precisionHandling
            \notin {Str(PrecisionSafe), Str(PrecisionUnchecked),
                    Str(PrecisionShowImprecision)} )
        => RaisedInvalidOption /\ ~out.r.text.invoked

\* C20 witness: 10.00 EUR, toLocaleString(undefined, {precisionHandling:
\* ['unchecked']}) raises nothing and returns the rendering of 10.
C20_Witness ==
    /\ out.op = "toLocaleString"
    /\ out.self.amount = Dec(1, <<1>>, 1)
    /\ out.self.currency = EUR
    /\ out.locale = "undefined"
    /\ out.options
          = [NoOptions EXCEPT !.precisionHandling
                                 = Obj("array", PrecisionUnchecked),
                              !.hasPrecisionHandling = TRUE]
    /\ out.r.kind = "string"
    /\ out.r.text.invoked
    /\ out.r.text.number = parseFloat(<<"1", "0">>)

\* The options the locale renderer was handed in the call.
OptionsHandedOver == out.r.text.options

\* C21 as stated: whenever a.toLocaleString(locale, options) reaches the
\* locale renderer (and so whenever it reaches formatImprecision, which is
\* handed the same object), the options handed over have no
\* precisionHandling key, whatever the caller supplied for it, and have
\* the caller's other options as they were.
C21_PrecisionHandlingNeverForwarded ==
    (out.op = "toLocaleString" /\ out.r.text.invoked) =>
        /\ ~OptionsHandedOver.hasPrecisionHandling
        /\ OptionsHandedOver.rest = out.options.rest
        /\ out.options.style # Undefined
              => OptionsHandedOver.style = out.options.style
        /\ out.options.currency # Undefined
              => OptionsHandedOver.currency = out.options.currency

\* C21 witness: 10.00 EUR, toLocaleString(undefined, {precisionHandling:
\* undefined}) renders 10 with options that have the key precisionHandling.
C21_Witness ==
    /\ out.op = "toLocaleString"
    /\ out.self.amount = Dec(1, <<1>>, 1)
    /\ out.self.currency = EUR
    /\ out.locale = "undefined"
    /\ out.options = [NoOptions EXCEPT !.hasPrecisionHandling = TRUE]
    /\ out.r.kind = "string"
    /\ out.r.text.invoked
    /\ OptionsHandedOver.hasPrecisionHandling

\* The text a.toDecimalString() returned, read as a decimal literal.
TextAsBig == ParseNumeric(out.r.str)

\* new Money(text, a.currency) of the class of a, never constructed before
\* (the cache knows its currency).
FromText ==
    MoneyNew(currencyNumberFormats, out.self.family, Str(out.r.str),
             Str(out.self.currency), UNDEFINED).r

\* C22: a.toDecimalString() is a plain decimal literal (no exponent) that
\* denotes exactly the amount of a, and a.toString() is the currency of a,
\* one space and that text, for amounts that are safe numbers and for
\* those that are not; new Money(a.toDecimalString(), a.currency) is a
\* Money eq to a whose toDecimalString() is the same text.
C22_TextIsExactAndRoundTrips ==
    /\ out.op = "toDecimalString" =>
          /\ out.r.kind = "str"
          /\ IsPlainDecimal(out.r.str)
          /\ TextAsBig.c = out.self.amount.c
          /\ TextAsBig.e = out.self.amount.e
          /\ TextAsBig.s = out.self.amount.s \/ BigIsZero(out.self.amount)
          /\ FromText.kind = "money"
          /\ FromText.money.currency = out.self.currency
          /\ eq(out.self, FromText.money).bool
          /\ toDecimalString(FromText.money) = out.r
          /\ out.self.amount = UnsafeTwentyDigits
                => out.r.str = <<"1", "2", "3", "4", "1", "2", "3", "4", "1",
                                 "2", "3", "4", "1", "2", "3", "4", "1", "2",
                                 "3", "4", ".", "1", "2">>
    /\ out.op = "toString" =>
          /\ out.r.kind = "str"
          /\ out.r.str = out.self.currency \o <<" ">>
                             \o toDecimalString(out.self).str
          /\ SubSeq(out.r.str, 1, 4) = out.self.currency \o <<" ">>
          /\ ParseNumeric(SubSeq(out.r.str, 5, Len(out.r.str))).c
                = out.self.amount.c
          /\ ParseNumeric(SubSeq(out.r.str, 5, Len(out.r.str))).e
                = out.self.amount.e

\* C22 witness: a.toString() of 1234123412341235.51 EUR, which is not a
\* safe number, is 'EUR 1234123412341235.51'.
C22_Witness ==
    /\ out.op = "toString"
    /\ out.self.amount = UnsafeSixteenDigits
    /\ SafeNumberOrNullOfSelf.kind = "null"
    /\ out.r.str = <<"E", "U", "R", " ", "1", "2", "3", "4", "1", "2", "3",
                     "4", "1", "2", "3", "4", "1", "2", "3", "5", ".", "5",
                     "1">>

\* The amount of the receiver of the call is numerically zero: all its
\* digits are.
SelfIsNumericallyZero ==
    \A i \in 1..Len(out.self.amount.c) : out.self.amount.c[i] = 0

\* C23: for every Money a that construction and the operations lead to,
\* a.sign() is -1, 0 or 1, and 0 exactly when the amount is numerically
\* zero, a negative zero included; a.isZero() is sign = 0, a.isPositive()
\* is sign = 1 and a.isNegative() is sign = -1, so that exactly one of
\* the three holds.
C23_SignAndPredicatesAgree ==
    out.op \in {"sign", "isZero", "isNegative", "isPositive"} =>
        /\ sign(out.self).num \in {-1, 0, 1}
        /\ sign(out.self).num = 0 <=> SelfIsNumericallyZero
        /\ sign(out.self).num = 1
              <=> (~SelfIsNumericallyZero /\ out.self.amount.s = 1)
        /\ out.op = "sign" => out.r = RetNum(sign(out.self).num)
        /\ out.op = "isZero"
              => out.r = RetBool(sign(out.self).num = 0)
        /\ out.op = "isPositive"
              => out.r = RetBool(sign(out.self).num = 1)
        /\ out.op = "isNegative"
              => out.r = RetBool(sign(out.self).num = -1)
        /\ Cardinality({ p \in {"isZero", "isPositive", "isNegative"} :
                           CASE p = "isZero" -> isZero(out.self).bool
                             [] p = "isPositive" -> isPositive(out.self).bool
                             [] p = "isNegative" -> isNegative(out.self).bool
                        }) = 1

\* C23 witness: a.sign() is 0 for a zero that is stored with a minus sign.
C23_Witness ==
    /\ out.op = "sign"
    /\ BigIsZero(out.self.amount)
    /\ out.self.amount.s = -1
    /\ out.r = RetNum(0)

\* A step in which the caller of the library makes a call.
CallStep == out.op = "none" /\ out'.op # "none"

KeepsInvariants(m) ==
    /\ Str(m.currency) \in DOMAIN currencyNumberFormats
    /\ FracDigits(m.amount) <= IntlFractionDigits(m.currency)

\* C25 as stated: whatever the caller of the public interface calls, the
\* Money it obtains has an amount of no more fraction digits than its
\* currency allows and a currency that was validated.
C25_NoUncheckedMoneyForCallers ==
    /\ out.r.kind = "money" => KeepsInvariants(out.r.money)
    /\ Constructed(a) => KeepsInvariants(a)

\* C25 witness: Money.createUnchecked(new Big('1.005'), 'nope') returns a
\* Money of 1.005 nope.
C25_Witness ==
    /\ out.op = "createUnchecked"
    /\ out.r.kind = "money"
    /\ out.r.money.amount = Dec(1, <<1, 0, 0, 5>>, 0)
    /\ out.r.money.currency = <<"n", "o", "p", "e">>
    /\ ~KeepsInvariants(out.r.money)

\* The codes the cache has an entry for.
Cached == DOMAIN currencyNumberFormats

\* C26: the cache of currency metadata only grows.  In every step each
\* entry stays as it is; a code is added only when it was not there (so
\* that it is looked up once) and only with the entry its lookup gives,
\* the lookup having succeeded; a construction that fails on its currency
\* adds nothing; and resolving a code that is there returns the entry
\* stored and leaves the cache as it is.
C26_CacheOnlyGrows ==
    /\ [](\A k \in Cached :
            NumberFormatEntryGet(currencyNumberFormats, k)
              = [ok |-> TRUE, entry |-> currencyNumberFormats[k],
                 cache |-> currencyNumberFormats])
    /\ [][ /\ \A k \in Cached :
                /\ k \in Cached'
                /\ currencyNumberFormats'[k] = currencyNumberFormats[k]
           /\ \A k \in Cached' \ Cached :
                /\ IntlWellFormed(k.v)
                /\ currencyNumberFormats'[k]
                     = [currency |-> ToUpperCase(k.v),
                        minimumFractionDigits
                          |-> IntlFractionDigits(ToUpperCase(k.v))]
                /\ out'.op \in {"new", "convertCurrency"} \cup BinaryOps
                /\ k \in {out'.cur, Str(ToUpperCase(out'.cur.v))}
           /\ (out'.r.kind = "error" /\ out'.r.err = "InvalidCurrency")
                => Cached' = Cached ]_vars

\* C26 witness: new Money(x, 'eur') when 'eur', 'EUR' and 'IRR' are in the
\* cache already.
C26_Witness ==
    /\ out.op = "new"
    /\ out.cur = Str(<<"e", "u", "r">>)
    /\ out.r.kind = "money"
    /\ Cached = {Str(EUR), Str(IRR), Str(<<"e", "u", "r">>)}
    /\ currencyNumberFormats[Str(<<"e", "u", "r">>)].currency = EUR
    /\ currencyNumberFormats[Str(IRR)].minimumFractionDigits = 0

\* The operations that return a Money built from the receiver.
FamilyOps == {"add", "sub", "mul", "div", "mod", "abs", "convertCurrency"}

OnePointOneNineOne == Str(<<"1", ".", "1", "9", "1">>)

ZeroPointThreeThreeThreeThree == Str(<<"0", ".", "3", "3", "3", "3">>)

TenEUR(family) ==
    [amount |-> Dec(1, <<1>>, 1), currency |-> EUR, family |-> family]

\* C27: every Money returned by add, sub, mul, div, mod, abs and
\* convertCurrency belongs to the receiver's family, also when the other
\* operand belongs to a different family, and with no rounding mode passed
\* every rounding (of a product, of a quotient, of a converted amount, of a
\* constructed amount) is made under the default mode of that family; the
\* round-up family constructs 1.191 EUR as 1.20 and gives 3.34 EUR for
\* 10.00 EUR times 0.3333 and for 10.00 EUR divided by 3.
C27_ResultsStayInReceiversFamily ==
    /\ (out.op \in FamilyOps /\ out.r.kind = "money") =>
           out.r.money.family = out.self.family
    /\ (out.op = "mul" /\ out.rm = UNDEFINED /\ out.r.kind = "money") =>
           LET n == BigNew(out.n)
           IN  RoundedFrom(out.r.money.amount,
                           ResultSign(out.self.amount, n),
                           ProductNum(out.self.amount, n),
                           ProductDen(out.self.amount, n),
                           IntlFractionDigits(out.r.money.currency),
                           BigRM(out.self.family))
    /\ (out.op = "div" /\ out.rm = UNDEFINED /\ out.r.kind = "money") =>
           LET n == BigNew(out.n)
               q == BigDivRounded(out.self.amount, n, BigDP(out.self.family),
                                  BigRM(out.self.family))
           IN  /\ RoundedFrom(q, ResultSign(out.self.amount, n),
                              QuotientNum(out.self.amount, n),
                              QuotientDen(out.self.amount, n),
                              BigDP(out.self.family), BigRM(out.self.family))
               /\ RoundedFrom(out.r.money.amount, q.s, Coef(q),
                              Pow10(FracDigits(q)),
                              IntlFractionDigits(out.r.money.currency),
                              BigRM(out.self.family))
    /\ (out.op = "convertCurrency" /\ out.r.kind = "money") =>
           LET n == BigNew(out.n)
           IN  RoundedFrom(out.r.money.amount,
                           ResultSign(out.self.amount, n),
                           ProductNum(out.self.amount, n),
                           ProductDen(out.self.amount, n),
                           IntlFractionDigits(out.r.money.currency),
                           BigRM(out.self.family))
    /\ (out.op = "new" /\ out.family = "MoneyUp" /\ out.n = OnePointOneNineOne
            /\ out.cur = Str(EUR)) =>
           /\ out.r.kind = "money"
           /\ out.r.money.amount = Dec(1, <<1, 2>>, 0)
    /\ (out.op = "mul" /\ out.self = TenEUR("MoneyUp")
            /\ out.n = ZeroPointThreeThreeThreeThree /\ out.rm = UNDEFINED) =>
           out.r.money = [TenEUR("MoneyUp") EXCEPT !.amount = Dec(1, <<3, 3, 4>>, 0)]
    /\ (out.op = "div" /\ out.self = TenEUR("MoneyUp")
            /\ out.n = Num(<<"3">>) /\ out.rm = UNDEFINED) =>
           out.r.money = [TenEUR("MoneyUp") EXCEPT !.amount = Dec(1, <<3, 3, 4>>, 0)]

\* C27 witness: 10.00 EUR of the round-up family plus 0.01 EUR of the base
\* family is 10.01 EUR of the round-up family.
C27_Witness ==
    /\ out.op = "add"
    /\ out.self = TenEUR("MoneyUp")
    /\ out.other.family = "Money"
    /\ out.other.amount = Dec(1, <<1>>, -2)
    /\ out.r.kind = "money"
    /\ out.r.money = [TenEUR("MoneyUp") EXCEPT !.amount = Dec(1, <<1, 0, 0, 1>>, 1)]

====
